---------------------------- MODULE Spec2Model ----------------------------
(***************************************************************************)
(* Verification model of vivarium-core: the path resolver assoc_in, the    *)
(* ParallelProcess adapter and its worker loop, the structural updates     *)
(* emitted by the Engulf and MetaDivision steps, and the scheduling of     *)
(* steps and time-stepped processes.                                       *)
(***************************************************************************)
EXTENDS Integers, Sequences, FiniteSets, TLC

(***************************************************************************)
(* Part 1. assoc_in (vivarium/core/process.py)                             *)
(*                                                                         *)
(* A Python value is a tagged node: a leaf, a mapping (dict) whose items   *)
(* is a function from keys to nodes, or the marker of a raised exception.  *)
(***************************************************************************)

VARIABLES d, path, value, result, apc, heap, before, hresult

assocVars == <<d, path, value, result, apc, heap, before, hresult>>

\* The ParallelProcess adapter (Part 2).
VARIABLES reqQ, repQ, rpc, sent, collected, ended, cleanEnd, sequential,
          procPriv, direct, wpc, wmsg, wupdate, wpriv, wlog, workerHolds

parVars == <<reqQ, repQ, rpc, sent, collected, ended, cleanEnd, sequential,
             procPriv, direct, wpc, wmsg, wupdate, wpriv, wlog, workerHolds>>

\* The hierarchy and the structural updates (Part 3).
VARIABLES tree, lastTick, writes

storeVars == <<tree, lastTick, writes>>

\* The scheduler (Part 4).
VARIABLES units, store, clock, due, runs, visited, spc, iter, lastRound

schedVars == <<units, store, clock, due, runs, visited, spc, iter, lastRound>>

\* The resolution of the updates written to one leaf (Part 5).
VARIABLES leaf, declared, mpc, lastApply

mergeVars == <<leaf, declared, mpc, lastApply>>

\* The construction of a Process (Part 6).
VARIABLES defaults, init_parameters, self, cpc

constructVars == <<defaults, init_parameters, self, cpc>>

\* The schema overrides of a nested processes mapping (Part 7).
VARIABLES generated, processes, applied, opc, schema

overrideVars == <<generated, processes, applied, opc, schema>>

\* The command line of a library of experiments (Part 8).
VARIABLES parser_args, options, run_all, calls, lpc

cliVars == <<parser_args, options, run_all, calls, lpc>>

\* The workers of an engine whose units divide (Part 9).
VARIABLES hierarchy, workers, epc, pending, joining, divisions

engineVars == <<hierarchy, workers, epc, pending, joining, divisions>>

\* The libraries of a Control object (Part 10).
VARIABLES experiments_library, plots_library, output_data, workflows_run,
          lastWorkflow

controlVars ==
    <<experiments_library, plots_library, output_data, workflows_run, lastWorkflow>>

\* A leaf Process and its generate() (Part 11).
VARIABLES leaf_name, leaf_given, leaf_process, generate_calls, lastGenerate

leafVars == <<leaf_name, leaf_given, leaf_process, generate_calls, lastGenerate>>

vars == <<assocVars, parVars, storeVars, schedVars, mergeVars, constructVars,
          overrideVars, cliVars, engineVars, controlVars, leafVars>>

\* What the actions of one part leave alone: the variables of the others.
exceptAssoc ==
    <<parVars, storeVars, schedVars, mergeVars, constructVars, overrideVars,
      cliVars, engineVars, controlVars, leafVars>>

exceptPar ==
    <<assocVars, storeVars, schedVars, mergeVars, constructVars, overrideVars,
      cliVars, engineVars, controlVars, leafVars>>

exceptStore ==
    <<assocVars, parVars, schedVars, mergeVars, constructVars, overrideVars,
      cliVars, engineVars, controlVars, leafVars>>

exceptSched ==
    <<assocVars, parVars, storeVars, mergeVars, constructVars, overrideVars,
      cliVars, engineVars, controlVars, leafVars>>

exceptMerge ==
    <<assocVars, parVars, storeVars, schedVars, constructVars, overrideVars,
      cliVars, engineVars, controlVars, leafVars>>

exceptConstruct ==
    <<assocVars, parVars, storeVars, schedVars, mergeVars, overrideVars,
      cliVars, engineVars, controlVars, leafVars>>

exceptOverride ==
    <<assocVars, parVars, storeVars, schedVars, mergeVars, constructVars,
      cliVars, engineVars, controlVars, leafVars>>

exceptCli ==
    <<assocVars, parVars, storeVars, schedVars, mergeVars, constructVars,
      overrideVars, engineVars, controlVars, leafVars>>

exceptEngine ==
    <<assocVars, parVars, storeVars, schedVars, mergeVars, constructVars,
      overrideVars, cliVars, controlVars, leafVars>>

exceptControl ==
    <<assocVars, parVars, storeVars, schedVars, mergeVars, constructVars,
      overrideVars, cliVars, engineVars, leafVars>>

exceptLeaf ==
    <<assocVars, parVars, storeVars, schedVars, mergeVars, constructVars,
      overrideVars, cliVars, engineVars, controlVars>>

\* Depth of the nested mappings drawn as inputs of assoc_in.
MaxDepth == 2

\* Paths reach one level below the deepest mapping, so that mappings are
\* created along the path.
MaxPathLen == MaxDepth + 1

Keys == {"a", "b"}

Leaf(n) == [kind |-> "leaf", val |-> n]

Map(f) == [kind |-> "map", items |-> f]

Raised == [kind |-> "raise"]

EmptyDict == Map(<<>>)

IsMapping(x) == x.kind = "map"

\* The nodes of depth at most n whose leaves are drawn from L.
RECURSIVE Nodes(_, _)
Nodes(n, L) ==
    IF n = 0 THEN {Leaf(x) : x \in L}
    ELSE LET sub == Nodes(n - 1, L)
         IN  {Leaf(x) : x \in L}
             \cup {Map(f) : f \in UNION {[S -> sub] : S \in SUBSET Keys}}

InputTrees == {t \in Nodes(MaxDepth, {0}) : IsMapping(t)}

InputValues == {Leaf(0), Leaf(1), EmptyDict, Map([k \in {"a"} |-> Leaf(1)])}

RECURSIVE PathsUpTo(_)
PathsUpTo(n) ==
    IF n = 0 THEN {<<>>}
    ELSE LET shorter == PathsUpTo(n - 1)
         IN  shorter \cup {<<k>> \o p : k \in Keys, p \in {q \in shorter : Len(q) = n - 1}}

InputPaths == PathsUpTo(MaxPathLen)

\* d.get(key, {}) of a dict d.
dict_get(m, key) == IF key \in DOMAIN m.items THEN m.items[key] ELSE EmptyDict

\* dict(d, **{key: v}) that forgets d's own items.
dict_with_Dropping(m, key, v) == Map([k \in {key} |-> v])

\* dict(d, **{key: v}): a new dict holding d's items with key bound to v.
dict_with(m, key, v) ==
    Map([k \in (DOMAIN m.items) \cup {key} |-> IF k = key THEN v ELSE m.items[k]])

\* assoc_in(d, path, value).  d.get raises when d is no mapping, and the
\* exception leaves every enclosing call.
RECURSIVE assoc_in(_, _, _)
assoc_in(m, p, v) ==
    IF p # <<>>
    THEN IF ~IsMapping(m) THEN Raised
         ELSE LET inner == assoc_in(dict_get(m, Head(p)), Tail(p), v)
              IN  IF inner = Raised THEN Raised
                  ELSE dict_with(m, Head(p), inner)
    ELSE v

\* Reading a tree at a path: "absent" when the path leaves the tree.
Absent == [kind |-> "absent"]

RECURSIVE get_in(_, _)
get_in(m, p) ==
    IF p = <<>> THEN m
    ELSE IF IsMapping(m) /\ Head(p) \in DOMAIN m.items
         THEN get_in(m.items[Head(p)], Tail(p))
         ELSE Absent

IsPrefix(p, q) == Len(p) <= Len(q) /\ SubSeq(q, 1, Len(p)) = p

\* Every proper prefix of p is absent from m or a mapping.
PathFits(m, p) ==
    \A n \in 0 .. (Len(p) - 1) :
        LET at == get_in(m, SubSeq(p, 1, n)) IN at = Absent \/ IsMapping(at)

\* The dict objects behind the trees of the model.  An object is a function
\* from its keys to its items; an item is a leaf or a reference to an object.
\* The objects of the arguments are addressed by their place in the argument,
\* the objects a call builds by the order in which it builds them.
Addr(space, at, n) == [space |-> space, at |-> at, n |-> n]

Ref(a) == [kind |-> "ref", addr |-> a]

IsRef(x) == x.kind = "ref"

MappingPaths(t) == {p \in PathsUpTo(MaxDepth) : IsMapping(get_in(t, p))}

ItemOf(space, t, p) ==
    IF IsMapping(get_in(t, p)) THEN Ref(Addr(space, p, 0)) ELSE get_in(t, p)

ObjectsOf(space, t) ==
    [a \in {Addr(space, p, 0) : p \in MappingPaths(t)} |->
        [k \in DOMAIN get_in(t, a.at).items |-> ItemOf(space, t, Append(a.at, k))]]

\* The tree an item stands for.
RECURSIVE TreeOf(_, _)
TreeOf(h, x) ==
    IF IsRef(x) THEN Map([k \in DOMAIN h[x.addr] |-> TreeOf(h, h[x.addr][k])]) ELSE x

NewAddr(h) == Addr("new", <<>>, Cardinality({a \in DOMAIN h : a.space = "new"}))

Returned(h, x) == [heap |-> h, ref |-> x, raised |-> FALSE]

\* An assignment d[key] = v followed by returning d itself.
dict_InPlace(h, r, key, v) ==
    Returned([h EXCEPT ![r.addr] =
                 [k \in (DOMAIN h[r.addr]) \cup {key} |->
                     IF k = key THEN v ELSE h[r.addr][k]]],
             r)

\* dict(d, **{key: v}) on objects: a new dict is built from d's items and the
\* binding of key; d is read only.
dict(h, r, key, v) ==
    LET new == NewAddr(h)
    IN  Returned(h @@ (new :> [k \in (DOMAIN h[r.addr]) \cup {key} |->
                                  IF k = key THEN v ELSE h[r.addr][k]]),
                 Ref(new))

\* assoc_in on objects.  The {} handed to d.get is built before d.get is
\* called; d.get raises when d is no dict.
RECURSIVE assoc_in_objects(_, _, _, _)
assoc_in_objects(h, r, p, v) ==
    IF p # <<>>
    THEN IF ~IsRef(r) THEN [heap |-> h, ref |-> r, raised |-> TRUE]
         ELSE LET default == NewAddr(h)
                  h1 == h @@ (default :> <<>>)
                  got == IF Head(p) \in DOMAIN h[r.addr]
                         THEN h[r.addr][Head(p)]
                         ELSE Ref(default)
                  inner == assoc_in_objects(h1, got, Tail(p), v)
              IN  IF inner.raised THEN inner
                  ELSE dict(inner.heap, r, Head(p), inner.ref)
    ELSE Returned(h, v)

\* The objects of the arguments d and value, and the arguments as items.
InputHeap == ObjectsOf("d", d) @@ ObjectsOf("value", value)

InputRef == ItemOf("d", d, <<>>)

ValueRef == ItemOf("value", value, <<>>)

AssocStart ==
    /\ d \in InputTrees
    /\ path \in InputPaths
    /\ value \in InputValues
    /\ result = Absent
    /\ apc = "call"
    /\ heap = InputHeap
    /\ before = InputHeap
    /\ hresult = Absent

\* One call of assoc_in on the drawn inputs.
AssocCall ==
    /\ apc = "call"
    /\ result' = assoc_in(d, path, value)
    /\ LET call == assoc_in_objects(heap, InputRef, path, ValueRef)
       IN  /\ heap' = call.heap
           /\ hresult' = IF call.raised THEN Raised ELSE call.ref
    /\ apc' = "returned"
    /\ UNCHANGED <<d, path, value, before>>
    /\ UNCHANGED exceptAssoc

\* The assoc_in part at rest, for the specifications of the other parts.
AssocIdle ==
    /\ d = EmptyDict
    /\ path = <<>>
    /\ value = EmptyDict
    /\ result = Absent
    /\ apc = "idle"
    /\ heap = <<>>
    /\ before = <<>>
    /\ hresult = Absent

(***************************************************************************)
(* Part 2. ParallelProcess and its worker _run_update                      *)
(* (vivarium/core/process.py)                                              *)
(*                                                                         *)
(* The requester owns the parent end of a duplex pipe, the worker the      *)
(* child end.  reqQ is the buffer of the direction parent -> child, repQ   *)
(* of child -> parent.  A message carries its position in the requester's  *)
(* history as a tag, which no operation of the program reads.              *)
(***************************************************************************)

\* Messages the requester sends over one run (update() and end() calls).
MaxRequests == 4

\* Messages one direction of the pipe buffers before send blocks.
PipeCap == 2

Intervals == {-1, 1, 2}

PortStates == {"s1", "s2"}

None == "None"

\* Private states a Process may hold when it is wrapped.
InitialPrivate == {0, 1}

\* Process.next_update of a process that keeps private state in instance
\* variables: the update depends on the interval, the states and the private
\* state, and the call advances the private state.
next_update(priv, interval, states) ==
    [update |-> [interval |-> interval, states |-> states, call |-> priv],
     priv |-> priv + 1]

\* A worker that builds its process anew instead of receiving the wrapped one.
WorkerCopy_Fresh(priv) == 0

\* The copy of the wrapped process the worker starts with: the Multiprocess
\* target receives the process as it is when start() is called.
WorkerCopy(priv) == priv

\* A worker that runs on the requester's own Process object.
RequesterProcess_Shared(own, advanced) == advanced

\* The requester's Process object after the worker has run next_update: the
\* worker is a multiprocessing.Process, so what the call assigns to the
\* instance reaches the worker's copy only.
RequesterProcess(own, advanced) == own

\* A worker that never recognises the sentinel.
IsStop_Never(interval) == interval = 0

\* The worker's reading of the sentinel: interval == -1.
IsStop(interval) == interval = -1

\* A channel that delivers the newest message first.
conn_send_Front(q, m) == <<m>> \o q

\* Connection.send: the message joins the tail of the direction's buffer.
conn_send(q, m) == Append(q, m)

\* A channel whose send never waits for room.
send_blocks_Never(q) == FALSE

\* Connection.send waits while the direction's buffer is full.
send_blocks(q) == Len(q) >= PipeCap

\* ParallelProcess.__init__ keeps both ends of Pipe() as self.parent and
\* self.child, and no method of ParallelProcess closes self.child.
ParentKeepsChildEnd == TRUE

\* The child end is open while any handle on it is.
ChildEndOpen == ParentKeepsChildEnd \/ workerHolds

\* Connection.recv on the parent end: data when a message is buffered, end of
\* file when the buffer is empty and every handle on the other end is closed,
\* and otherwise the call blocks.
parent_recv == 
    IF repQ # <<>> THEN "data" ELSE IF ChildEndOpen THEN "block" ELSE "eof"

\* The worker's registers before it has received or computed anything.
NoMessage == [interval |-> 0, states |-> None, tag |-> 0]

NoUpdate == [update |-> [interval |-> 0, states |-> None, call |-> 0], tag |-> 0]

WorkerEnded == wpc \in {"exited", "dead"}

ParStart ==
    /\ reqQ = <<>>
    /\ repQ = <<>>
    /\ rpc = "idle"
    /\ sent = <<>>
    /\ collected = <<>>
    /\ ended = FALSE
    /\ cleanEnd = FALSE
    /\ sequential = TRUE
    /\ procPriv \in InitialPrivate
    /\ direct = [priv |-> procPriv, out |-> <<>>]
    /\ wpc = "recv"
    /\ wmsg = NoMessage
    /\ wupdate = NoUpdate
    /\ wpriv = WorkerCopy(procPriv)
    /\ wlog = <<>>
    /\ workerHolds = TRUE

\* The adapter at rest, for the specifications of the other parts.
ParIdle ==
    /\ reqQ = <<>>
    /\ repQ = <<>>
    /\ rpc = "none"
    /\ sent = <<>>
    /\ collected = <<>>
    /\ ended = FALSE
    /\ cleanEnd = FALSE
    /\ sequential = TRUE
    /\ procPriv = 0
    /\ direct = [priv |-> 0, out |-> <<>>]
    /\ wpc = "none"
    /\ wmsg = NoMessage
    /\ wupdate = NoUpdate
    /\ wpriv = 0
    /\ wlog = <<>>
    /\ workerHolds = FALSE

\* ParallelProcess.update(interval, states): parent.send((interval, states)).
\* The same request is served by the non-isolated reference instance.
Update(interval, states) ==
    /\ rpc = "idle"
    /\ Len(sent) < MaxRequests
    /\ ~send_blocks(reqQ)
    /\ reqQ' = conn_send(reqQ, [interval |-> interval, states |-> states,
                                tag |-> Len(sent) + 1])
    /\ sent' = Append(sent, [interval |-> interval, states |-> states,
                             via |-> "update"])
    /\ LET r == next_update(direct.priv, interval, states)
       IN  direct' = [priv |-> r.priv, out |-> Append(direct.out, r.update)]
    /\ sequential' = (sequential /\ Len(collected) = Len(sent))
    /\ UNCHANGED <<repQ, rpc, collected, ended, cleanEnd, procPriv,
                   wpc, wmsg, wupdate, wpriv, wlog, workerHolds>>
    /\ UNCHANGED exceptPar

\* ParallelProcess.get() is entered: the requester waits in parent.recv().
GetCall ==
    /\ rpc = "idle"
    /\ rpc' = "get"
    /\ UNCHANGED <<reqQ, repQ, sent, collected, ended, cleanEnd, sequential, procPriv, direct,
                   wpc, wmsg, wupdate, wpriv, wlog, workerHolds>>
    /\ UNCHANGED exceptPar

\* parent.recv() ends: with the oldest buffered reply, or with EOFError.
GetReturn ==
    /\ rpc = "get"
    /\ parent_recv # "block"
    /\ IF parent_recv = "data"
       THEN /\ collected' = Append(collected, Head(repQ))
            /\ repQ' = Tail(repQ)
            /\ rpc' = "idle"
       ELSE /\ rpc' = "raised"
            /\ UNCHANGED <<collected, repQ>>
    /\ UNCHANGED <<reqQ, sent, ended, cleanEnd, sequential, procPriv, direct,
                   wpc, wmsg, wupdate, wpriv, wlog, workerHolds>>
    /\ UNCHANGED exceptPar

\* Every request sent so far came from update() with a real interval, and its
\* reply has been collected.
AllAnswered ==
    /\ \A n \in 1 .. Len(sent) : sent[n].via = "update" /\ ~IsStop(sent[n].interval)
    /\ Len(collected) = Len(sent)

\* ParallelProcess.end(), first statement: parent.send((-1, None)).
End ==
    /\ rpc = "idle"
    /\ Len(sent) < MaxRequests
    /\ ~send_blocks(reqQ)
    /\ reqQ' = conn_send(reqQ, [interval |-> -1, states |-> None,
                                tag |-> Len(sent) + 1])
    /\ sent' = Append(sent, [interval |-> -1, states |-> None, via |-> "end"])
    /\ cleanEnd' = (cleanEnd \/ AllAnswered)
    /\ rpc' = "join"
    /\ UNCHANGED <<repQ, collected, ended, sequential, procPriv, direct,
                   wpc, wmsg, wupdate, wpriv, wlog, workerHolds>>
    /\ UNCHANGED exceptPar

\* ParallelProcess.end(), second statement: multiprocess.join() returns once
\* the worker process has ended.
JoinReturn ==
    /\ rpc = "join"
    /\ WorkerEnded
    /\ rpc' = "idle"
    /\ ended' = TRUE
    /\ UNCHANGED <<reqQ, repQ, sent, collected, cleanEnd, sequential, procPriv, direct,
                   wpc, wmsg, wupdate, wpriv, wlog, workerHolds>>
    /\ UNCHANGED exceptPar

\* _run_update: interval, states = connection.recv(), and the test of the
\* interval: the sentinel ends the loop, any other message is served.
WorkerRecv ==
    /\ wpc = "recv"
    /\ reqQ # <<>>
    /\ reqQ' = Tail(reqQ)
    /\ wmsg' = Head(reqQ)
    /\ wpc' = IF IsStop(Head(reqQ).interval) THEN "close" ELSE "compute"
    /\ UNCHANGED <<repQ, rpc, sent, collected, ended, cleanEnd, sequential, procPriv, direct,
                   wupdate, wpriv, wlog, workerHolds>>
    /\ UNCHANGED exceptPar

\* _run_update: update = process.next_update(interval, states), on the
\* worker's copy of the process.
WorkerCompute ==
    /\ wpc = "compute"
    /\ LET r == next_update(wpriv, wmsg.interval, wmsg.states)
       IN  /\ wupdate' = [update |-> r.update, tag |-> wmsg.tag]
           /\ wpriv' = r.priv
           /\ procPriv' = RequesterProcess(procPriv, r.priv)
           /\ wlog' = Append(wlog, [update |-> r.update, tag |-> wmsg.tag])
    /\ wpc' = "send"
    /\ UNCHANGED <<reqQ, repQ, rpc, sent, collected, ended, cleanEnd, sequential,
                   direct, wmsg, workerHolds>>
    /\ UNCHANGED exceptPar

\* _run_update: connection.send(update), which blocks while the buffer is full.
WorkerSend ==
    /\ wpc = "send"
    /\ ~send_blocks(repQ)
    /\ repQ' = conn_send(repQ, wupdate)
    /\ wpc' = "recv"
    /\ UNCHANGED <<reqQ, rpc, sent, collected, ended, cleanEnd, sequential, procPriv, direct,
                   wmsg, wupdate, wpriv, wlog, workerHolds>>
    /\ UNCHANGED exceptPar

\* _run_update: connection.close() after the loop, and the worker exits.
WorkerClose ==
    /\ wpc = "close"
    /\ workerHolds' = FALSE
    /\ wpc' = "exited"
    /\ UNCHANGED <<reqQ, repQ, rpc, sent, collected, ended, cleanEnd, sequential, procPriv,
                   direct, wmsg, wupdate, wpriv, wlog>>
    /\ UNCHANGED exceptPar

\* The worker process dies (it is killed, or next_update raises): the
\* operating system closes the handles it held.
WorkerDie ==
    /\ wpc \in {"recv", "compute", "send", "close"}
    /\ workerHolds' = FALSE
    /\ wpc' = "dead"
    /\ UNCHANGED <<reqQ, repQ, rpc, sent, collected, ended, cleanEnd, sequential, procPriv,
                   direct, wmsg, wupdate, wpriv, wlog>>
    /\ UNCHANGED exceptPar

WorkerStep == WorkerRecv \/ WorkerCompute \/ WorkerSend \/ WorkerClose

ParNext ==
    \/ \E i \in Intervals, s \in PortStates : Update(i, s)
    \/ GetCall
    \/ GetReturn
    \/ End
    \/ JoinReturn
    \/ WorkerRecv
    \/ WorkerCompute
    \/ WorkerSend
    \/ WorkerClose
    \/ WorkerDie

(***************************************************************************)
(* Part 3. The Engulf and MetaDivision steps and the structural updates    *)
(* they emit (vivarium/processes/engulf.py, meta_division.py)              *)
(*                                                                         *)
(* An agent id is a string of digits, held as a sequence of digits.  The   *)
(* hierarchy is a function from agent paths to agent states: the path      *)
(* <<x, y>> is agent y in the `agents` store inside agent x, and <<>> names *)
(* the root `agents` store.  The store that applies updates is not part of *)
(* the sources at hand; it follows the design document (section 4.3).      *)
(***************************************************************************)

\* Writes of the timeline (divide flags and engulf triggers) over one run.
MaxWrites == 3

\* Neighbors one engulf trigger lists.
MaxTrigger == 2

\* test_engulf: agent_ids = [str(agent_id + 1) for agent_id in range(3)].
InitialAgentIds == {<<1>>, <<2>>, <<3>>}

\* test_engulf's initial state of an agent: its concentration is its id, the
\* trigger list is empty, and the divide flag has its schema default.
InitialAgent(id) == [divide |-> FALSE, trigger |-> <<>>, A |-> id[1]]

Parent(p) == SubSeq(p, 1, Len(p) - 1)

Key(p) == p[Len(p)]

\* The keys held by the `agents` store at node.
KeysAt(t, node) ==
    {q[Len(node) + 1] : q \in {r \in DOMAIN t : IsPrefix(node, r) /\ Len(r) > Len(node)}}

\* The subtree below (and with) the agent at p, by paths relative to p.
Subtree(t, p) ==
    [r \in {SubSeq(q, Len(p) + 1, Len(q)) : q \in {x \in DOMAIN t : IsPrefix(p, x)}}
        |-> t[p \o r]]

\* daughter_phylogeny_id that gives both daughters the same id.
daughter_phylogeny_id_OneSuffix(mother_id) == <<Append(mother_id, 0), Append(mother_id, 0)>>

\* daughter_phylogeny_id that hands the mother's id to the first daughter.
daughter_phylogeny_id_KeepsMother(mother_id) == <<mother_id, Append(mother_id, 1)>>

\* daughter_phylogeny_id: [str(mother_id) + '0', str(mother_id) + '1'].
daughter_phylogeny_id(mother_id) == <<Append(mother_id, 0), Append(mother_id, 1)>>

\* MetaDivision.next_update: with the divide flag set, a _divide update under
\* the `agents` port naming the agent as mother and one entry per daughter id;
\* otherwise the empty update.
MetaDivision_next_update(agent_id, states) ==
    IF states.global.divide
    THEN LET daughter_ids == daughter_phylogeny_id(agent_id)
         IN  [agents |->
                 [_divide |->
                     [mother |-> agent_id,
                      daughters |-> [i \in 1 .. Len(daughter_ids) |->
                                        [key |-> daughter_ids[i],
                                         initial_state |-> <<>>]]]]]
    ELSE <<>>

\* Engulf.next_update that names the port the neighbors already are in.
Engulf_next_update_Outer(states) ==
    IF states.trigger # <<>>
    THEN [trigger |-> [_updater |-> "set", _value |-> <<>>],
          outer |-> [_move |-> [i \in 1 .. Len(states.trigger) |->
                                   [source |-> states.trigger[i],
                                    target |-> "outer"]]]]
    ELSE <<>>

\* Engulf.next_update that writes the trigger back as it found it.
Engulf_next_update_KeepsTrigger(states) ==
    IF states.trigger # <<>>
    THEN [trigger |-> [_updater |-> "set", _value |-> states.trigger],
          outer |-> [_move |-> [i \in 1 .. Len(states.trigger) |->
                                   [source |-> states.trigger[i],
                                    target |-> "inner"]]]]
    ELSE <<>>

\* Engulf.next_update: with a non-empty trigger list, the trigger is reset by
\* an explicit set and every listed neighbor is moved from its key in `outer`
\* to `inner`; otherwise the empty update.
Engulf_next_update(states) ==
    IF states.trigger # <<>>
    THEN [trigger |-> [_updater |-> "set", _value |-> <<>>],
          outer |-> [_move |-> [i \in 1 .. Len(states.trigger) |->
                                   [source |-> states.trigger[i],
                                    target |-> "inner"]]]]
    ELSE <<>>

\* ToyAgent.generate_topology (engulf.py): the trigger is the agent's own
\* variable, `inner` is the agents store inside the agent (inner_path
\* ('agents',)) and `outer` the agents store that holds the agent (outer_path
\* ('..', '..', 'agents')).
EngulfTopology(p) == [trigger |-> p, inner |-> p, outer |-> Parent(p)]

\* ToyAgent.generate_topology (meta_division.py): `global` is the agent's own
\* store and `agents` the agents store that holds the agent (agents_path
\* ('..', '..', 'agents')).
DivisionTopology(p) == [global |-> p, agents |-> Parent(p)]

\* A divider that hands the mother's flag, set at the division, to the
\* daughters.
DaughterState_InheritsFlag == [divide |-> TRUE, trigger |-> <<>>, A |-> 0]

\* The state a daughter starts with: MetaDivision hands every daughter an
\* empty initial_state, the divide flag's divider is set_value with value
\* False (MetaDivision.ports_schema), and the variables without a divider
\* take their defaults (the trigger's _default is [], Engulf.ports_schema).
DaughterState == [divide |-> FALSE, trigger |-> <<>>, A |-> 0]

\* Design 4.3, "_updater"/"_value" with the strategy set: the value replaces
\* the variable's.
ApplySet(t, p, val) == [t EXCEPT ![p].trigger = val]

\* Design 4.3, _move: the subtree at key source of the store at node is
\* detached and attached under the store at target, which is created if it
\* does not exist.
MoveOne(t, node, source, target) ==
    LET src == Append(node, source)
        NewPath(q) == IF IsPrefix(src, q)
                      THEN target \o SubSeq(q, Len(node) + 1, Len(q))
                      ELSE q
    IN  IF src \notin DOMAIN t THEN t
        ELSE [r \in {NewPath(q) : q \in DOMAIN t} |->
                 t[CHOOSE q \in DOMAIN t : NewPath(q) = r]]

RECURSIVE ApplyMoves(_, _)
ApplyMoves(t, moves) ==
    IF moves = <<>> THEN t
    ELSE ApplyMoves(MoveOne(t, Head(moves).node, Head(moves).source,
                            Head(moves).target),
                    Tail(moves))

\* Design 4.3, _divide: the node named by mother is removed with all it
\* holds, and one new node per entry of daughters is inserted.
DivideOne(t, node, mother, daughters) ==
    LET m == Append(node, mother)
        kept == {q \in DOMAIN t : ~IsPrefix(m, q)}
        born == {Append(node, daughters[i].key) : i \in 1 .. Len(daughters)}
    IN  IF m \notin DOMAIN t THEN t
        ELSE [q \in kept \cup born |-> IF q \in born THEN DaughterState ELSE t[q]]

RECURSIVE ApplyDivides(_, _)
ApplyDivides(t, divides) ==
    IF divides = {} THEN t
    ELSE LET dv == CHOOSE x \in divides : TRUE
         IN  ApplyDivides(DivideOne(t, dv.node, dv.mother, dv.daughters),
                          divides \ {dv})

\* A store that divides before it moves.
ApplyStructural_DividesFirst(t, moves, divides) ==
    ApplyMoves(ApplyDivides(t, divides), moves)

\* Design 4.3, step 4: the structural mutations of one tick are applied in
\* one transformation, moves before divides.
ApplyStructural(t, moves, divides) ==
    ApplyDivides(ApplyMoves(t, moves), divides)

\* The updates the steps of the agent at p return on the tree t: the store
\* projects to each step the variables its ports reach.
EngulfUpdate(t, p) == Engulf_next_update([trigger |-> t[p].trigger])

DivisionUpdate(t, p) ==
    MetaDivision_next_update(Key(p), [global |-> [divide |-> t[p].divide]])

Engulfers(t) == {p \in DOMAIN t : EngulfUpdate(t, p) # <<>>}

\* The _move entries of the tick, each resolved through the topology of the
\* step that emitted it.
RECURSIVE MovesOf(_, _)
MovesOf(t, ps) ==
    IF ps = {} THEN <<>>
    ELSE LET p == CHOOSE x \in ps : TRUE
             entries == EngulfUpdate(t, p).outer._move
         IN  [i \in 1 .. Len(entries) |->
                 [node |-> EngulfTopology(p).outer,
                  source |-> entries[i].source,
                  target |-> EngulfTopology(p)[entries[i].target]]]
             \o MovesOf(t, ps \ {p})

\* The _divide entries of the tick, resolved likewise.
DividesOf(t) ==
    {[node |-> DivisionTopology(p).agents,
      mother |-> DivisionUpdate(t, p).agents._divide.mother,
      daughters |-> DivisionUpdate(t, p).agents._divide.daughters] :
        p \in {q \in DOMAIN t : DivisionUpdate(t, q) # <<>>}}

\* The explicit sets of the tick: every engulfing step resets its trigger.
RECURSIVE ApplySets(_, _)
ApplySets(t, ps) ==
    IF ps = {} THEN t
    ELSE LET p == CHOOSE x \in ps : TRUE
         IN  ApplySets(ApplySet(t, EngulfTopology(p).trigger,
                                EngulfUpdate(t, p).trigger._value),
                       ps \ {p})

\* lastTick records the tick that produced the current tree: the tree it
\* read, the mutations it applied, the tree between moves and divides, and
\* the snapshot it emitted.  It is cleared when the timeline writes.
NoTick == [ran |-> FALSE]

StoreStart ==
    /\ tree = [p \in {<<id>> : id \in InitialAgentIds} |-> InitialAgent(p[1])]
    /\ lastTick = NoTick
    /\ writes = 0

\* The hierarchy at rest, for the specifications of the other parts.
StoreIdle ==
    /\ tree = <<>>
    /\ lastTick = NoTick
    /\ writes = 0

Related(p, q) == IsPrefix(p, q) \/ IsPrefix(q, p)

\* The timeline sets the divide flag of an agent (test_division's timeline
\* entry at time_divide).  No agent is told to divide while it, or an agent
\* above or below it, is already told to, or while it lies in a subtree that
\* is about to be moved.
TimelineDivide(p) ==
    /\ p \in DOMAIN tree
    /\ writes < MaxWrites
    /\ \A q \in DOMAIN tree : tree[q].divide => ~Related(p, q)
    /\ \A q \in DOMAIN tree : \A i \in 1 .. Len(tree[q].trigger) :
           ~IsPrefix(Append(Parent(q), tree[q].trigger[i]), p)
    /\ tree' = [tree EXCEPT ![p].divide = TRUE]
    /\ writes' = writes + 1
    /\ lastTick' = NoTick
    /\ UNCHANGED exceptStore

\* The lists of distinct keys of ks, of length 1 to MaxTrigger.
TriggerLists(ks) ==
    {ns \in UNION {[1 .. n -> ks] : n \in 1 .. MaxTrigger} :
        \A i, j \in 1 .. Len(ns) : ns[i] = ns[j] => i = j}

\* The timeline sets the engulf trigger of an agent to a list of its
\* neighbors (test_engulf's timeline entries).  One trigger is pending at a
\* time, and no listed neighbor holds an agent that is told to divide.
TimelineTrigger(p, ns) ==
    /\ p \in DOMAIN tree
    /\ writes < MaxWrites
    /\ \A q \in DOMAIN tree : tree[q].trigger = <<>>
    /\ ns \in TriggerLists(KeysAt(tree, Parent(p)) \ {Key(p)})
    /\ \A q \in DOMAIN tree : tree[q].divide =>
           \A i \in 1 .. Len(ns) : ~IsPrefix(Append(Parent(p), ns[i]), q)
    /\ tree' = [tree EXCEPT ![p].trigger = ns]
    /\ lastTick' = NoTick
    /\ writes' = writes + 1
    /\ UNCHANGED exceptStore

\* One tick: every step computes its update on the same tree, the engine
\* applies the sets and then the structural mutations, and emits the tree.
Tick ==
    LET moves == MovesOf(tree, Engulfers(tree))
        divides == DividesOf(tree)
        settled == ApplySets(tree, Engulfers(tree))
    IN  /\ tree' = ApplyStructural(settled, moves, divides)
        /\ lastTick' = [ran |-> TRUE, before |-> tree, moves |-> moves,
                        divides |-> divides,
                        afterMoves |-> ApplyMoves(settled, moves),
                        emitted |-> tree']
        /\ UNCHANGED writes
        /\ UNCHANGED exceptStore

StoreNext ==
    \/ \E p \in DOMAIN tree : TimelineDivide(p)
    \/ \E p \in DOMAIN tree :
           \E ns \in TriggerLists(KeysAt(tree, Parent(p))) : TimelineTrigger(p, ns)
    \/ Tick

(***************************************************************************)
(* Part 4. Timesteps, steps and the scheduler                              *)
(* (Process.calculate_timestep, Process.is_deriver, Deriver.is_deriver in  *)
(* vivarium/core/process.py; the engine's tick follows the design          *)
(* document, section 4.4)                                                  *)
(*                                                                         *)
(* Two time-stepped processes write the variable sx; one step derives sy   *)
(* from it.  A settling step copies sx to sy; a cycling step depends on    *)
(* its own output and changes sy at every run.                             *)
(***************************************************************************)

\* Iterations of the steps the engine allows in one tick.
MaxStepIterations == 3

\* The simulated time the engine is run for.
RunTime == 12

DEFAULT_TIME_STEP == 1

\* The parameter mappings given at construction: with a time_step, or empty.
GivenParameters == {<<>>} \cup {[time_step |-> n] : n \in {2, 3}}

\* Process.__init__: parameters.setdefault('time_step', DEFAULT_TIME_STEP).
Parameters(given) ==
    [time_step |-> IF "time_step" \in DOMAIN given THEN given.time_step
                   ELSE DEFAULT_TIME_STEP]

\* calculate_timestep that ignores the process's parameter.
calculate_timestep_Default(process, states) == DEFAULT_TIME_STEP

\* Process.calculate_timestep: self.parameters['time_step'], whatever the
\* states.
calculate_timestep(process, states) == process.parameters.time_step

\* Process.is_deriver that answers True.
Process_is_deriver_True == TRUE

\* Process.is_deriver: False.
Process_is_deriver == FALSE

\* Deriver.is_deriver: True.
Deriver_is_deriver == TRUE

\* The method the class of the unit provides.
is_deriver(unit) ==
    IF unit.class = "Deriver" THEN Deriver_is_deriver ELSE Process_is_deriver

ProcessNames == {"p1", "p2"}

UnitNames == ProcessNames \cup {"step"}

Steps == {n \in UnitNames : is_deriver(units[n])}

TimeStepped == {n \in UnitNames : ~is_deriver(units[n])}

\* next_update of a unit on the state st for the elapsed time: a process
\* flips sx when time has passed; the step sets sy.
UnitUpdate(n, st, elapsed) ==
    IF units[n].class = "Deriver"
    THEN [sy |-> IF units[n].cycling THEN 1 - st.sy ELSE st.sx]
    ELSE IF elapsed > 0 THEN [sx |-> 1 - st.sx] ELSE <<>>

\* Design 4.3, strategy set: the update's value replaces the variable's.
ApplyUpdate(st, u) ==
    [k \in DOMAIN st |-> IF k \in DOMAIN u THEN u[k] ELSE st[k]]

\* The state once every unit of ns has computed its update on st and the
\* updates are applied (the units of one round write different variables or
\* the same value).
RECURSIVE ApplyAll(_, _, _, _)
ApplyAll(st, read, ns, elapsedOf) ==
    IF ns = {} THEN st
    ELSE LET n == CHOOSE x \in ns : TRUE
         IN  ApplyAll(ApplyUpdate(st, UnitUpdate(n, read, elapsedOf[n])),
                      read, ns \ {n}, elapsedOf)

ZeroElapsed == [n \in UnitNames |-> 0]

\* No step produces a further change on st.
Settled(st) == ApplyAll(st, st, Steps, ZeroElapsed) = st

MinOf(S) == CHOOSE x \in S : \A y \in S : x <= y

NoRound == [kind |-> "none"]

SchedStart ==
    /\ \E g1, g2 \in GivenParameters, c \in BOOLEAN :
           units = [n \in UnitNames |->
                       IF n = "step"
                       THEN [class |-> "Deriver", cycling |-> c,
                             parameters |-> Parameters(<<>>)]
                       ELSE [class |-> "Process", cycling |-> FALSE,
                             parameters |-> Parameters(IF n = "p1" THEN g1 ELSE g2)]]
    /\ store = [sx |-> 0, sy |-> 0]
    /\ clock = 0
    /\ due = [n \in TimeStepped |-> calculate_timestep(units[n], store)]
    /\ runs = [n \in UnitNames |-> 0]
    /\ visited = <<>>
    /\ spc = "steps"
    /\ iter = 0
    /\ lastRound = NoRound

\* The scheduler at rest, for the specifications of the other parts.
SchedIdle ==
    /\ units = <<>>
    /\ store = <<>>
    /\ clock = 0
    /\ due = <<>>
    /\ runs = <<>>
    /\ visited = <<>>
    /\ spc = "none"
    /\ iter = 0
    /\ lastRound = NoRound

\* Design 4.4, {collect-deriver-updates} and {apply-derivers-until-stable},
\* one iteration: every step runs with zero elapsed time on the same state;
\* when nothing changes the steps are settled and the tick goes on to the
\* time-stepped processes.
StepIteration ==
    /\ spc = "steps"
    /\ iter < MaxStepIterations
    /\ LET new == ApplyAll(store, store, Steps, ZeroElapsed)
       IN  /\ store' = new
           /\ IF new = store
              THEN spc' = "processes" /\ iter' = 0
              ELSE spc' = "steps" /\ iter' = iter + 1
    /\ runs' = [n \in UnitNames |-> IF n \in Steps THEN runs[n] + 1 ELSE runs[n]]
    /\ lastRound' = [kind |-> "steps", ran |-> Steps, elapsed |-> ZeroElapsed,
                     settled |-> Settled(store), dueBefore |-> due]
    /\ UNCHANGED <<units, clock, due, visited>>
    /\ UNCHANGED exceptSched

\* Design 4.4: the steps did not settle within the bound, and the run aborts
\* with a configuration error.
StepAbort ==
    /\ spc = "steps"
    /\ iter = MaxStepIterations
    /\ spc' = "aborted"
    /\ UNCHANGED <<units, store, clock, due, runs, visited, iter, lastRound>>
    /\ UNCHANGED exceptSched

\* Design 4.4, {select} to {advance global clock}: the clock moves to the
\* smallest next-due time, the processes due then compute on the same state
\* for their timestep, their updates are applied, and each is given its next
\* due time by a fresh call of calculate_timestep.
ProcessRound ==
    /\ spc = "processes"
    /\ TimeStepped # {}
    /\ LET next == MinOf({due[n] : n \in TimeStepped})
           now == {n \in TimeStepped : due[n] = next}
           elapsedOf == [n \in UnitNames |->
                            IF n \in now THEN calculate_timestep(units[n], store)
                            ELSE 0]
       IN  /\ next <= RunTime
           /\ clock' = next
           /\ visited' = Append(visited, next)
           /\ store' = ApplyAll(store, store, now, elapsedOf)
           /\ due' = [n \in TimeStepped |->
                         IF n \in now
                         THEN next + calculate_timestep(units[n], store')
                         ELSE due[n]]
           /\ runs' = [n \in UnitNames |-> IF n \in now THEN runs[n] + 1 ELSE runs[n]]
           /\ lastRound' = [kind |-> "processes", ran |-> now, elapsed |-> elapsedOf,
                            settled |-> Settled(store), dueBefore |-> due]
    /\ spc' = "steps"
    /\ UNCHANGED <<units, iter>>
    /\ UNCHANGED exceptSched

\* No process is due within the run time: the run is over.
Finish ==
    /\ spc = "processes"
    /\ \A n \in TimeStepped : due[n] > RunTime
    /\ spc' = "done"
    /\ clock' = RunTime
    /\ UNCHANGED <<units, store, due, runs, visited, iter, lastRound>>
    /\ UNCHANGED exceptSched

SchedNext == StepIteration \/ StepAbort \/ ProcessRound \/ Finish

(***************************************************************************)
(* Part 5. Update resolution of one leaf                                   *)
(* (the store is not part of the sources at hand; it follows the design    *)
(* document, sections 4.3 and 7)                                           *)
(*                                                                         *)
(* Two processes have a port that reaches the same numeric leaf.  Each     *)
(* declares an update strategy for it in its schema, and in a tick each    *)
(* writes nothing, a plain value, or an explicit _updater/_value pair.     *)
(***************************************************************************)

\* The ticks stop once the leaf has grown beyond this value.
MaxLeaf == 6

Strategies == {"set", "accumulate"}

Writers == {"w1", "w2"}

UpdateValues == {1, 2}

NoWrite == [kind |-> "none"]

\* What a process's update holds at the leaf.
UpdateLeaves ==
    {[kind |-> "plain", _value |-> v] : v \in UpdateValues}
        \cup {[kind |-> "explicit", _updater |-> st, _value |-> v] :
                  st \in Strategies, v \in UpdateValues}

\* Design 4.3, step 3: the strategy of one write is the one the writer's
\* schema declares, unless the update carries an explicit pair.
EffectiveStrategy(w, u) ==
    IF u.kind = "explicit" THEN u._updater ELSE declared[w]

\* An accumulate that replaces the value.
ApplyLeaf_Replaces(val, w) == w.value

\* Design 4.3, step 3: set replaces the value, accumulate adds to it.
ApplyLeaf(val, w) ==
    IF w.strategy = "accumulate" THEN val + w.value ELSE w.value

RECURSIVE ApplyWrites(_, _)
ApplyWrites(val, ws) ==
    IF ws = <<>> THEN val ELSE ApplyWrites(ApplyLeaf(val, Head(ws)), Tail(ws))

\* A store that takes every pair of writes as compatible.
MergeConflict_Never(ws) == FALSE

\* Design 4.3 and 7: two writers of one leaf in one tick disagree on the
\* strategy.
MergeConflict(ws) ==
    \E i, j \in 1 .. Len(ws) : ws[i].strategy # ws[j].strategy

\* The writes of a tick in the order the store is to apply them.
WritesOf(ups, order) ==
    LET all == [i \in 1 .. Len(order) |->
                   [writer |-> order[i],
                    wrote |-> ups[order[i]] # NoWrite,
                    strategy |-> IF ups[order[i]] = NoWrite THEN "none"
                                 ELSE EffectiveStrategy(order[i], ups[order[i]]),
                    value |-> IF ups[order[i]] = NoWrite THEN 0
                              ELSE ups[order[i]]._value]]
    IN  SelectSeq(all, LAMBDA w : w.wrote)

WriterOrders == {<<"w1", "w2">>, <<"w2", "w1">>}

NoApply == [ran |-> FALSE]

MergeStart ==
    /\ leaf = 0
    /\ declared \in [Writers -> Strategies]
    /\ mpc = "ready"
    /\ lastApply = NoApply

\* The leaf at rest, for the specifications of the other parts.
MergeIdle ==
    /\ leaf = 0
    /\ declared = <<>>
    /\ mpc = "none"
    /\ lastApply = NoApply

\* One tick: the updates of the processes are collected and resolved against
\* the leaf; a merge conflict aborts the tick and leaves the leaf alone.
ApplyTick(ups, order) ==
    /\ mpc = "ready"
    /\ leaf <= MaxLeaf
    /\ LET ws == WritesOf(ups, order)
       IN  IF MergeConflict(ws)
           THEN /\ mpc' = "aborted"
                /\ leaf' = leaf
                /\ lastApply' = [ran |-> TRUE, before |-> leaf, writes |-> ws,
                                 error |-> "MergeConflictError"]
           ELSE /\ mpc' = "ready"
                /\ leaf' = ApplyWrites(leaf, ws)
                /\ lastApply' = [ran |-> TRUE, before |-> leaf, writes |-> ws,
                                 error |-> "none"]
    /\ UNCHANGED declared
    /\ UNCHANGED exceptMerge

MergeNext ==
    \E ups \in [Writers -> UpdateLeaves \cup {NoWrite}], order \in WriterOrders :
        ApplyTick(ups, order)

(***************************************************************************)
(* Part 6. Process.__init__ (vivarium/core/process.py)                     *)
(*                                                                         *)
(* Parameter mappings are the tagged nodes of Part 1; a boolean is a node  *)
(* of its own kind, and None is the node of a missing argument.            *)
(* deep_merge belongs to vivarium.library.dict_utils, which is not part of *)
(* the sources at hand; it follows the design document (deep-merge,        *)
(* override wins).                                                         *)
(***************************************************************************)

Bool(b) == [kind |-> "bool", flag |-> b]

NoneValue == [kind |-> "none"]

\* A mapping that binds each key of ks for which pick gives a node.
Binding(ks, pick) ==
    Map([k \in {x \in ks : pick[x] # Absent} |-> pick[k]])

\* The parameter mappings whose leaves hold v: the key a bound to a leaf or
\* to a mapping over b and c, a time_step, a schema override in _schema and
\* a flag in _parallel, each present or not.
ParameterMappings(v) ==
    LET nested == {Map(f) : f \in UNION {[S -> {Leaf(v)}] : S \in (SUBSET {"b", "c"}) \ {{}}}}
        choices == [a |-> {Absent, Leaf(v)} \cup nested,
                    time_step |-> {Absent, Leaf(v + 2)},
                    _schema |-> {Absent, EmptyDict,
                                 Map([k \in {"a"} |-> Leaf(v)]),
                                 Map([k \in {"b"} |-> Leaf(v)])},
                    _parallel |-> {Absent, Bool(TRUE), Bool(FALSE)}]
    IN  {Binding(DOMAIN choices, pick) :
            pick \in {f \in [DOMAIN choices -> UNION {choices[k] : k \in DOMAIN choices}] :
                         \A k \in DOMAIN choices : f[k] \in choices[k]}}

\* The class attribute `defaults` of the Process subclasses drawn.
ClassDefaults == ParameterMappings(0)

\* The argument `parameters` of the constructor: a mapping, or None.
GivenArguments == ParameterMappings(1) \cup {NoneValue}

\* parameters or {}.
OrEmpty(x) == IF x = NoneValue \/ x = EmptyDict THEN EmptyDict ELSE x

\* deep_merge(dct, merge_dct): the keys of merge_dct are written into dct;
\* where both hold a mapping the merge goes on below, and anywhere else the
\* value of merge_dct replaces the one of dct.
RECURSIVE deep_merge(_, _)
deep_merge(dct, merge_dct) ==
    Map([k \in (DOMAIN dct.items) \cup (DOMAIN merge_dct.items) |->
            IF k \notin DOMAIN merge_dct.items THEN dct.items[k]
            ELSE IF k \in DOMAIN dct.items
                    /\ IsMapping(dct.items[k]) /\ IsMapping(merge_dct.items[k])
                 THEN deep_merge(dct.items[k], merge_dct.items[k])
                 ELSE merge_dct.items[k]])

\* dict.pop(key, default): the value bound to key, or the default.
dict_pop_value(m, key, default) ==
    IF key \in DOMAIN m.items THEN m.items[key] ELSE default

\* dict.pop(key, default): the dict once the key is removed.
dict_pop_rest(m, key) == Map([k \in (DOMAIN m.items) \ {key} |-> m.items[k]])

\* A setdefault that binds the key whether or not it is bound.
dict_setdefault_Always(m, key, v) == dict_with(m, key, v)

\* dict.setdefault(key, v): the key is bound to v only when it is not bound.
dict_setdefault(m, key, v) ==
    IF key \in DOMAIN m.items THEN m ELSE dict_with(m, key, v)

\* Process.__init__: the attributes parameters, schema_override and parallel
\* of the constructed process.
Process_init(class_defaults, parameters) ==
    LET merged == deep_merge(class_defaults, OrEmpty(parameters))
        schema_override == dict_pop_value(merged, "_schema", EmptyDict)
        popped1 == dict_pop_rest(merged, "_schema")
        parallel == dict_pop_value(popped1, "_parallel", Bool(FALSE))
        popped2 == dict_pop_rest(popped1, "_parallel")
    IN  [parameters |-> dict_setdefault(popped2, "time_step", Leaf(DEFAULT_TIME_STEP)),
         schema_override |-> schema_override,
         parallel |-> parallel]

NoProcess == [parameters |-> Absent, schema_override |-> Absent, parallel |-> Absent]

ConstructStart ==
    /\ defaults \in ClassDefaults
    /\ init_parameters \in GivenArguments
    /\ self = NoProcess
    /\ cpc = "new"

\* No process under construction, for the specifications of the other parts.
ConstructIdle ==
    /\ defaults = EmptyDict
    /\ init_parameters = NoneValue
    /\ self = NoProcess
    /\ cpc = "idle"

\* The constructor runs on the drawn class defaults and argument.
Construct ==
    /\ cpc = "new"
    /\ self' = Process_init(defaults, init_parameters)
    /\ cpc' = "constructed"
    /\ UNCHANGED <<defaults, init_parameters>>
    /\ UNCHANGED exceptConstruct

ConstructNext == Construct

(***************************************************************************)
(* Part 7. _override_schemas, Process.merge_overrides, Process.get_schema  *)
(* (vivarium/core/process.py)                                              *)
(*                                                                         *)
(* The processes mapping a composite generates holds, under its keys, a    *)
(* Process, a nested processes mapping, or another value.  A Process is a  *)
(* node of its own kind that carries its schema_override.  generated      *)
(* keeps the mapping as generate_processes returned it, and applied the    *)
(* overrides mappings applied to it since.                                 *)
(***************************************************************************)

\* Applications of _override_schemas to one processes mapping.
MaxOverrides == 2

ProcessNode(so) == [kind |-> "process", schema_override |-> so]

IsProcess(x) == x.kind = "process"

\* ports_schema of the processes drawn: one port with one variable.
ports_schema ==
    Map([port \in {"global"} |->
            Map([flag \in {"_default", "_divider"} |-> Leaf(0)])])

\* The schema overrides one application hands to a process: flags of the
\* variable, holding the number v of the application.
SchemaOverrides(v) ==
    {Map([port \in {"global"} |-> Map(f)]) :
        f \in UNION {[S -> {Leaf(v)}] : S \in {{"_default"}, {"_default", "_emit"}}}}

\* The schema_override a process holds after its construction.
InitialOverrides == {EmptyDict, Map([port \in {"global"} |-> Map([flag \in {"_emit"} |-> Leaf(0)])])}

\* The overrides mappings of application v: an override for the process p,
\* for the nested mapping sub (naming its process r, or a key it does not
\* hold), for the value x that is neither, and for a key the processes
\* mapping does not hold.
OverrideMappings(v) ==
    {Binding({"p", "sub", "x", "gone"},
             [p |-> forP, sub |-> forSub, x |-> forX, gone |-> forGone]) :
        forP \in {Absent} \cup SchemaOverrides(v),
        forSub \in {Absent}
                   \cup {Map([k \in {"r"} |-> so]) : so \in SchemaOverrides(v)}
                   \cup {Map([k \in {"gone"} |-> EmptyDict])},
        forX \in {Absent, EmptyDict},
        forGone \in {Absent, EmptyDict}}

\* A merge_overrides that replaces the set by the override.
merge_overrides_Replaces(process, override) == ProcessNode(override)

\* Process.merge_overrides: deep_merge(self.schema_override, override).
merge_overrides(process, override) ==
    ProcessNode(deep_merge(process.schema_override, override))

\* _override_schemas(overrides, processes): processes[key] raises KeyError
\* for a key the mapping does not hold; a Process merges the override, a
\* nested mapping is descended into, and any other value is passed over.
RECURSIVE _override_schemas(_, _)
_override_schemas(overrides, procs) ==
    IF \E key \in DOMAIN overrides.items : key \notin DOMAIN procs.items
    THEN Raised
    ELSE LET after(key) ==
                 IF key \notin DOMAIN overrides.items THEN procs.items[key]
                 ELSE IF IsProcess(procs.items[key])
                      THEN merge_overrides(procs.items[key], overrides.items[key])
                      ELSE IF IsMapping(procs.items[key])
                           THEN _override_schemas(overrides.items[key], procs.items[key])
                           ELSE procs.items[key]
         IN  IF \E key \in DOMAIN procs.items : after(key) = Raised
             THEN Raised
             ELSE Map([key \in DOMAIN procs.items |-> after(key)])

\* Process.get_schema(override): ports_schema() deep-merged with
\* schema_override and then with the override given, None standing for none.
get_schema(process, override) ==
    deep_merge(deep_merge(ports_schema, process.schema_override),
               OrEmpty(override))

\* The overrides of the keys in ks alone.
Restricted(overrides, ks) ==
    Map([key \in (DOMAIN overrides.items) \cap ks |-> overrides.items[key]])

\* The keys whose override is applied without an exception.
AppliedCleanly(overrides, procs) ==
    {key \in DOMAIN overrides.items :
        key \in DOMAIN procs.items
        /\ _override_schemas(Restricted(overrides, {key}), procs) # Raised}

ProcessPaths == {<<"p">>, <<"sub", "r">>}

NoSchema == [of |-> <<>>, schema |-> Absent]

OverrideStart ==
    /\ \E so1, so2 \in InitialOverrides :
           processes = Map([key \in {"p", "sub", "x"} |->
                               IF key = "p" THEN ProcessNode(so1)
                               ELSE IF key = "sub"
                                    THEN Map([k \in {"r"} |-> ProcessNode(so2)])
                                    ELSE Leaf(0)])
    /\ generated = processes
    /\ applied = <<>>
    /\ opc = "ready"
    /\ schema = NoSchema

\* No processes mapping, for the specifications of the other parts.
OverrideIdle ==
    /\ processes = EmptyDict
    /\ generated = EmptyDict
    /\ applied = <<>>
    /\ opc = "idle"
    /\ schema = NoSchema

\* _override_schemas(overrides, processes) as Process.generate calls it.  The
\* merges act in place: when a key raises, the overrides of the keys visited
\* before it have been applied, in the order the dict happens to hold them.
OverrideSchemas(overrides) ==
    /\ opc = "ready"
    /\ Len(applied) < MaxOverrides
    /\ LET out == _override_schemas(overrides, processes)
       IN  IF out # Raised
           THEN /\ processes' = out
                /\ opc' = "ready"
           ELSE /\ \E ks \in SUBSET AppliedCleanly(overrides, processes) :
                       processes' = _override_schemas(Restricted(overrides, ks), processes)
                /\ opc' = "raised"
    /\ applied' = Append(applied, overrides)
    /\ schema' = NoSchema
    /\ UNCHANGED generated
    /\ UNCHANGED exceptOverride

\* get_schema() is called on the process at pp.
GetSchema(pp) ==
    /\ opc = "ready"
    /\ schema' = [of |-> pp, schema |-> get_schema(get_in(processes, pp), NoneValue)]
    /\ UNCHANGED <<generated, processes, applied, opc>>
    /\ UNCHANGED exceptOverride

OverrideNext ==
    \/ \E overrides \in OverrideMappings(Len(applied) + 1) : OverrideSchemas(overrides)
    \/ \E pp \in ProcessPaths : GetSchema(pp)

(***************************************************************************)
(* Part 8: the options of a command line (control.py)                      *)
(*                                                                         *)
(* A string is a sequence of characters, so that splitting an option and   *)
(* typing its value act on the characters as the code does.  The           *)
(* characters drawn are letters, digits, '.', '-' and '='.                 *)
(***************************************************************************)

\* Number of --options arguments drawn for one command line.
MaxOptions == 2

DigitChars == <<"0", "1", "2", "3", "4", "5", "6", "7", "8", "9">>

Digits == {DigitChars[i] : i \in 1 .. 10}

\* Position of the first ch in s, 0 when s holds none.
str_find(s, ch) ==
    IF \E i \in 1 .. Len(s) : s[i] = ch
    THEN MinOf({i \in 1 .. Len(s) : s[i] = ch})
    ELSE 0

AllDigits(s) == \A i \in 1 .. Len(s) : s[i] \in Digits

\* str.isdigit(): at least one character and every character a digit.
str_isdigit(s) == Len(s) > 0 /\ AllDigits(s)

\* int(s) of an all-digit string.
RECURSIVE int(_)
int(s) ==
    IF s = <<>> THEN 0
    ELSE 10 * int(SubSeq(s, 1, Len(s) - 1)) + (str_find(DigitChars, s[Len(s)]) - 1)

Signed(s) == Len(s) > 0 /\ s[1] \in {"-", "+"}

Unsigned(s) == IF Signed(s) THEN Tail(s) ELSE s

\* The parts of a decimal floating-point literal: sign, digits before and
\* after the point, and the exponent after the first 'e'.
FloatText(s) ==
    LET body == Unsigned(s)
        e == IF str_find(body, "e") # 0 THEN str_find(body, "e")
             ELSE str_find(body, "E")
        mant == IF e = 0 THEN body ELSE SubSeq(body, 1, e - 1)
        dot == str_find(mant, ".")
    IN  [negative |-> Signed(s) /\ s[1] = "-",
         whole |-> IF dot = 0 THEN mant ELSE SubSeq(mant, 1, dot - 1),
         frac |-> IF dot = 0 THEN <<>> ELSE SubSeq(mant, dot + 1, Len(mant)),
         has_exp |-> e # 0,
         expo |-> IF e = 0 THEN <<>> ELSE SubSeq(body, e + 1, Len(body))]

\* is_float(element): float(element) raises no ValueError.
is_float(element) ==
    LET t == FloatText(element)
    IN  /\ AllDigits(t.whole)
        /\ AllDigits(t.frac)
        /\ Len(t.whole) + Len(t.frac) > 0
        /\ t.has_exp => str_isdigit(Unsigned(t.expo))

\* A float as mantissa * 10^exp with a mantissa that 10 does not divide.
RECURSIVE Normal(_, _)
Normal(m, e) ==
    IF m = 0 THEN <<0, 0>>
    ELSE IF m % 10 = 0 THEN Normal(m \div 10, e + 1)
    ELSE <<m, e>>

\* float(s) of a string that is_float accepts.
float(s) ==
    LET t == FloatText(s)
        m == int(t.whole \o t.frac)
        x == IF ~t.has_exp THEN 0
             ELSE IF Signed(t.expo) /\ t.expo[1] = "-" THEN 0 - int(Unsigned(t.expo))
             ELSE int(Unsigned(t.expo))
    IN  Normal(IF t.negative THEN 0 - m ELSE m, x - Len(t.frac))

\* bool(s) of a string: every string but the empty one is true.
bool(s) == Len(s) > 0

\* The typed values of the options.
IntValue(n) == [type |-> "int", num |-> n, exp |-> 0, flag |-> FALSE, str |-> <<>>]

FloatValue(f) == [type |-> "float", num |-> f[1], exp |-> f[2], flag |-> FALSE, str |-> <<>>]

BoolValue(b) == [type |-> "bool", num |-> 0, exp |-> 0, flag |-> b, str |-> <<>>]

StrValue(s) == [type |-> "str", num |-> 0, exp |-> 0, flag |-> FALSE, str |-> s]

\* a.split('=', 1) + [''], of which the code reads the first two elements.
split(a) ==
    LET i == str_find(a, "=")
    IN  IF i = 0 THEN <<a, <<>>>>
        ELSE <<SubSeq(a, 1, i - 1), SubSeq(a, i + 1, Len(a))>>

\* The value _parse_options gives to one str_value.
parse_value(str_value) ==
    IF str_isdigit(str_value) THEN IntValue(int(str_value))
    ELSE IF is_float(str_value) THEN FloatValue(float(str_value))
    ELSE IF str_value \in {<<"T", "r", "u", "e">>, <<"F", "a", "l", "s", "e">>}
         THEN BoolValue(bool(str_value))
    ELSE StrValue(str_value)

\* options[key] = value
dict_set(options_, key, val) ==
    [k \in DOMAIN options_ \cup {key} |-> IF k = key THEN val ELSE options_[k]]

EmptyOptions == [k \in {} |-> StrValue(<<>>)]

RECURSIVE parse_pairs(_, _)
parse_pairs(pairs, options_) ==
    IF pairs = <<>> THEN options_
    ELSE parse_pairs(Tail(pairs),
                     dict_set(options_, Head(pairs)[1], parse_value(Head(pairs)[2])))

ListValue(items) == [kind |-> "list", items |-> items]

_parse_options(options_list) ==
    LET assignments == IF options_list.kind = "none" THEN <<>> ELSE options_list.items
        pairs == [i \in 1 .. Len(assignments) |-> split(assignments[i])]
    IN  parse_pairs(pairs, EmptyOptions)

\* The option strings drawn: a key alone, or a key, '=' and a value.
KeyStrings == {<<"k">>, <<"j">>}

ValueStrings ==
    {<<>>, <<"7">>, <<"0", "4", "2">>, <<"0", ".", "2">>, <<"-", "1">>,
     <<"2", ".">>, <<"1", "e", "2">>, <<".">>,
     <<"T", "r", "u", "e">>, <<"F", "a", "l", "s", "e">>,
     <<"t", "r", "u", "e">>, <<"b">>, <<"k", "=", "v">>}

OptionStrings ==
    KeyStrings \cup {key \o <<"=">> \o v : key \in KeyStrings, v \in ValueStrings}

\* parser_args.options: None without -o, else the appended strings.
OptionLists ==
    {NoneValue} \cup
    {ListValue(l) : l \in UNION {[1 .. n -> OptionStrings] : n \in 1 .. MaxOptions}}

\* The library maps these names to functions, in this order.
LibraryOrder == <<"1", "2">>

LibraryNames == {LibraryOrder[i] : i \in 1 .. Len(LibraryOrder)}

\* parser_args.name: the names after -n, one of them ("3") not in the library.
NameLists == {<<>>, <<"1">>, <<"2", "1">>, <<"3">>, <<"1", "3">>}

CliStart ==
    /\ parser_args \in [name : NameLists, options : OptionLists]
    /\ options = EmptyOptions
    /\ run_all = FALSE
    /\ calls = <<>>
    /\ lpc = "parse"

CliIdle ==
    /\ parser_args = [name |-> <<>>, options |-> NoneValue]
    /\ options = EmptyOptions
    /\ run_all = FALSE
    /\ calls = <<>>
    /\ lpc = "idle"

\* run_library_cli up to its loops: run_all and the parsed options.
ParseOptions ==
    /\ lpc = "parse"
    /\ run_all' = (parser_args.name = <<>>)
    /\ options' = _parse_options(parser_args.options)
    /\ lpc' = "named"
    /\ UNCHANGED <<parser_args, calls>>
    /\ UNCHANGED exceptCli

\* One iteration of "for name in parser_args.name: library[name](**options)";
\* a name the library does not hold raises KeyError.
CallNamed ==
    /\ lpc = "named"
    /\ Len(calls) < Len(parser_args.name)
    /\ LET name == parser_args.name[Len(calls) + 1]
       IN  IF name \in LibraryNames
           THEN /\ calls' = Append(calls, [name |-> name, kwargs |-> options])
                /\ lpc' = lpc
           ELSE /\ calls' = calls
                /\ lpc' = "raised"
    /\ UNCHANGED <<parser_args, options, run_all>>
    /\ UNCHANGED exceptCli

\* The loop over the names is over.
NamedDone ==
    /\ lpc = "named"
    /\ Len(calls) = Len(parser_args.name)
    /\ lpc' = IF run_all THEN "all" ELSE "done"
    /\ UNCHANGED <<parser_args, options, run_all, calls>>
    /\ UNCHANGED exceptCli

\* One iteration of "for name, test in library.items(): test()".
CallAll ==
    /\ lpc = "all"
    /\ Len(calls) < Len(LibraryOrder)
    /\ calls' = Append(calls, [name |-> LibraryOrder[Len(calls) + 1],
                               kwargs |-> EmptyOptions])
    /\ UNCHANGED <<parser_args, options, run_all, lpc>>
    /\ UNCHANGED exceptCli

AllDone ==
    /\ lpc = "all"
    /\ Len(calls) = Len(LibraryOrder)
    /\ lpc' = "done"
    /\ UNCHANGED <<parser_args, options, run_all, calls>>
    /\ UNCHANGED exceptCli

CliNext == ParseOptions \/ CallNamed \/ NamedDone \/ CallAll \/ AllDone

(***************************************************************************)
(* Part 9: the workers of an engine whose units divide                     *)
(*                                                                         *)
(* ToyAgent (meta_division.py) gives each agent two processes, both        *)
(* wrapped in a ParallelProcess when `parallel` is set.  The worker loop   *)
(* and end() are those of process.py.  The engine and the store are not    *)
(* part of the sources; they follow the design: a tick requests an update  *)
(* from every process and collects it before anything is applied (4.4), a  *)
(* process instance is destroyed when its unit is removed from the         *)
(* hierarchy by a division (3), an adapter owns its worker for its         *)
(* lifetime, and teardown calls the termination protocol of the adapters   *)
(* (5).                                                                    *)
(***************************************************************************)

\* Number of divisions over one run.
MaxDivisions == 2

\* ToyAgent.generate_processes: the processes of one agent.
AgentProcesses == {"exchange", "division"}

\* test_division_parallel: agent_id = '1'.
FirstAgent == <<1>>

AdaptersOf(agent_ids) == {<<a, n>> : a \in agent_ids, n \in AgentProcesses}

\* ParallelProcess.__init__: the worker is started and waits in recv().
StartedWorker == [pc |-> "recv", conn |-> <<>>, replies |-> 0, awaited |-> FALSE]

\* The adapters a division destroys without ending their workers: none.
Destroyed_None(removed) == {}

\* The adapters destroyed when the units `removed` leave the hierarchy: those
\* of the units' processes.
Destroyed(removed) == AdaptersOf(removed)

\* An order in which the adapters of ws are ended.
SeqOf(ws) ==
    CHOOSE q \in [1 .. Cardinality(ws) -> ws] : {q[i] : i \in 1 .. Cardinality(ws)} = ws

EngineStart ==
    /\ hierarchy = {FirstAgent}
    /\ workers = [w \in AdaptersOf({FirstAgent}) |-> StartedWorker]
    /\ epc = "run"
    /\ pending = <<>>
    /\ joining = FALSE
    /\ divisions = 0

EngineIdle ==
    /\ hierarchy = {}
    /\ workers = <<>>
    /\ epc = "idle"
    /\ pending = <<>>
    /\ joining = FALSE
    /\ divisions = 0

\* A tick begins: ParallelProcess.update() on every process of the hierarchy.
RequestAll ==
    /\ epc = "run"
    /\ workers' = [w \in DOMAIN workers |->
                     IF w \in AdaptersOf(hierarchy)
                     THEN [workers[w] EXCEPT !.conn = Append(@, 1), !.awaited = TRUE]
                     ELSE workers[w]]
    /\ epc' = "collect"
    /\ UNCHANGED <<hierarchy, pending, joining, divisions>>
    /\ UNCHANGED exceptEngine

\* One iteration of _run_update in the worker of adapter w: recv(), then
\* either the reply is sent or, for the interval -1, the loop and the worker
\* end.
RunUpdate(w) ==
    /\ workers[w].pc = "recv"
    /\ workers[w].conn # <<>>
    /\ LET interval == Head(workers[w].conn)
       IN  workers' = [workers EXCEPT
               ![w].conn = Tail(@),
               ![w].pc = IF interval = -1 THEN "exited" ELSE @,
               ![w].replies = IF interval = -1 THEN @ ELSE @ + 1]
    /\ UNCHANGED <<hierarchy, epc, pending, joining, divisions>>
    /\ UNCHANGED exceptEngine

\* ParallelProcess.get() on adapter w returns the reply.
Collect(w) ==
    /\ epc = "collect"
    /\ workers[w].awaited
    /\ workers[w].replies > 0
    /\ workers' = [workers EXCEPT ![w].replies = @ - 1, ![w].awaited = FALSE]
    /\ UNCHANGED <<hierarchy, epc, pending, joining, divisions>>
    /\ UNCHANGED exceptEngine

AllCollected == \A w \in DOMAIN workers : ~workers[w].awaited

\* The tick's updates hold no division.
TickEnd ==
    /\ epc = "collect"
    /\ AllCollected
    /\ epc' = "run"
    /\ UNCHANGED <<hierarchy, workers, pending, joining, divisions>>
    /\ UNCHANGED exceptEngine

\* The tick's updates divide agent mother: the mother leaves the hierarchy,
\* the daughters enter it with processes of their own (the composer is
\* configured with parallel set, so their workers are started), and the
\* mother's process instances are destroyed.
Divide(mother) ==
    /\ epc = "collect"
    /\ AllCollected
    /\ divisions < MaxDivisions
    /\ mother \in hierarchy
    /\ LET ids == daughter_phylogeny_id(mother)
           daughters == {ids[i] : i \in 1 .. Len(ids)}
       IN  /\ hierarchy' = (hierarchy \ {mother}) \cup daughters
           /\ workers' = [w \in DOMAIN workers \cup AdaptersOf(daughters) |->
                             IF w \in DOMAIN workers THEN workers[w] ELSE StartedWorker]
    /\ pending' = SeqOf(Destroyed({mother}))
    /\ epc' = "destroy"
    /\ divisions' = divisions + 1
    /\ UNCHANGED joining
    /\ UNCHANGED exceptEngine

\* Engine.end(): the termination protocol of every adapter of the hierarchy.
EngineEnd ==
    /\ epc = "run"
    /\ pending' = SeqOf(AdaptersOf(hierarchy))
    /\ epc' = "end"
    /\ UNCHANGED <<hierarchy, workers, joining, divisions>>
    /\ UNCHANGED exceptEngine

\* ParallelProcess.end() on the next adapter: self.parent.send((-1, None)).
EndSend ==
    /\ epc \in {"destroy", "end"}
    /\ pending # <<>>
    /\ ~joining
    /\ workers' = [workers EXCEPT ![Head(pending)].conn = Append(@, -1)]
    /\ joining' = TRUE
    /\ UNCHANGED <<hierarchy, epc, pending, divisions>>
    /\ UNCHANGED exceptEngine

\* ParallelProcess.end(): self.multiprocess.join() returns once the worker
\* has ended.
EndJoin ==
    /\ joining
    /\ workers[Head(pending)].pc = "exited"
    /\ pending' = Tail(pending)
    /\ joining' = FALSE
    /\ UNCHANGED <<hierarchy, workers, epc, divisions>>
    /\ UNCHANGED exceptEngine

\* Every adapter of the operation is ended: the division is applied, or
\* Engine.end() returns.
EndReturn ==
    /\ epc \in {"destroy", "end"}
    /\ pending = <<>>
    /\ epc' = IF epc = "destroy" THEN "run" ELSE "ended"
    /\ UNCHANGED <<hierarchy, workers, pending, joining, divisions>>
    /\ UNCHANGED exceptEngine

EngineNext ==
    \/ RequestAll
    \/ \E w \in DOMAIN workers : RunUpdate(w)
    \/ \E w \in DOMAIN workers : Collect(w)
    \/ TickEnd
    \/ \E mother \in hierarchy : Divide(mother)
    \/ EngineEnd
    \/ EndSend
    \/ EndJoin
    \/ EndReturn

(***************************************************************************)
(* Part 10: the workflows of a Control object (control.py)                 *)
(*                                                                         *)
(* A library maps an id to a callable or to a dict that holds the callable *)
(* under a key ('experiment', 'plot') beside other keys.  A dict entry is  *)
(* its set of keys with the callable it holds or held.                     *)
(***************************************************************************)

\* Number of run_workflow calls on one Control object.
MaxWorkflowRuns == 3

Callable(fn) == [kind |-> "callable", keys |-> {}, fn |-> fn]

DictEntry(keys, fn) == [kind |-> "dict", keys |-> keys, fn |-> fn]

LibraryIds == {"1", "2"}

\* toy_control's experiment library holds {'name', 'experiment'} dicts and
\* bare functions; its plot library {'plot', 'config'} dicts and bare
\* functions.
ExperimentLibraries ==
    [LibraryIds -> {DictEntry({"name", "experiment"}, "test_composer"),
                     Callable("test_composer")}]

PlotLibraries ==
    [LibraryIds -> {DictEntry({"plot", "config"}, "toy_plot"),
                     Callable("toy_plot")}]

\* A workflow names an experiment id and, under 'plots', nothing, one plot id
\* or a list of plot ids ('plots' is the list of the ids to run, `single`
\* tells the bare id from the list of one).
Workflow(experiment, plots_, single) ==
    [experiment |-> experiment, plots |-> plots_, single |-> single]

\* toy_control's workflows '1' and '2', a workflow without plots and one with
\* two plots.
workflows_library ==
    [id \in {"1", "2", "3", "4"} |->
        CASE id = "1" -> Workflow("1", <<"1">>, FALSE)
          [] id = "2" -> Workflow("1", <<"2">>, TRUE)
          [] id = "3" -> Workflow("2", <<>>, FALSE)
          [] id = "4" -> Workflow("2", <<"2", "1">>, FALSE)]

\* What a call of a library function is: its function, the keyword arguments
\* beside data and out_dir, and the data it returns or receives.
Call(what, fn, kwargs, data) == [what |-> what, fn |-> fn, kwargs |-> kwargs, data |-> data]

OutputData(fn, n) == [kind |-> "data", fn |-> fn, run |-> n]

Outcome(lib, events, raised, data) ==
    [library |-> lib, events |-> events, raised |-> raised, data |-> data]

\* entry.pop(key): the key leaves the dict.
dict_pop(entry, key) == [entry EXCEPT !.keys = @ \ {key}]

\* run_experiment(experiment_config) for a str: the library entry, or the
\* callable popped from a dict entry (KeyError when the key is gone), called
\* without arguments.  n numbers the result.
run_experiment(lib, experiment_config, n) ==
    LET experiment == lib[experiment_config]
    IN  IF experiment.kind = "dict"
        THEN IF "experiment" \in experiment.keys
             THEN Outcome([lib EXCEPT ![experiment_config] = dict_pop(experiment, "experiment")],
                          <<Call("experiment", experiment.fn, {}, OutputData(experiment.fn, n))>>,
                          FALSE, OutputData(experiment.fn, n))
             ELSE Outcome(lib, <<>>, TRUE, NoneValue)
        ELSE Outcome(lib,
                     <<Call("experiment", experiment.fn, {}, OutputData(experiment.fn, n))>>,
                     FALSE, OutputData(experiment.fn, n))

\* run_one_plot(plot_config, data) for a str: the library entry; from a dict
\* entry 'plot' is popped (KeyError when it is gone; toy entries hold no
\* 'plot_id') and the callable gets the remaining items as keyword
\* arguments; a callable entry is called with data and out_dir alone.
run_one_plot(lib, plot_id, data) ==
    LET plot_config == lib[plot_id]
    IN  IF plot_config.kind = "dict"
        THEN IF "plot" \in plot_config.keys
             THEN LET rest == dict_pop(plot_config, "plot")
                  IN  Outcome([lib EXCEPT ![plot_id] = rest],
                              <<Call("plot", plot_config.fn, rest.keys, data)>>,
                              FALSE, data)
             ELSE Outcome(lib, <<>>, TRUE, data)
        ELSE Outcome(lib, <<Call("plot", plot_config.fn, {}, data)>>, FALSE, data)

\* run_plots(plot_ids, data): run_one_plot for each id in order; an exception
\* ends the loop.
RECURSIVE run_plots(_, _, _)
run_plots(lib, plot_ids, data) ==
    IF plot_ids = <<>> THEN Outcome(lib, <<>>, FALSE, data)
    ELSE LET one == run_one_plot(lib, Head(plot_ids), data)
         IN  IF one.raised THEN one
             ELSE LET rest == run_plots(one.library, Tail(plot_ids), data)
                  IN  Outcome(rest.library, one.events \o rest.events, rest.raised, data)

NoWorkflow == [ran |-> FALSE]

ControlStart ==
    /\ experiments_library \in ExperimentLibraries
    /\ plots_library \in PlotLibraries
    /\ output_data = NoneValue
    /\ workflows_run = 0
    /\ lastWorkflow = NoWorkflow

ControlIdle ==
    /\ experiments_library = <<>>
    /\ plots_library = <<>>
    /\ output_data = NoneValue
    /\ workflows_run = 0
    /\ lastWorkflow = NoWorkflow

\* Control.run_workflow(workflow_id): the experiment, whose result becomes
\* output_data, then the plots if the workflow lists any.  An exception of
\* the experiment leaves output_data as it was and skips the plots.
RunWorkflow(workflow_id) ==
    /\ workflows_run < MaxWorkflowRuns
    /\ LET workflow == workflows_library[workflow_id]
           ran == run_experiment(experiments_library, workflow.experiment,
                                 workflows_run + 1)
           plotted == IF ran.raised \/ workflow.plots = <<>>
                      THEN Outcome(plots_library, <<>>, FALSE, ran.data)
                      ELSE run_plots(plots_library, workflow.plots, ran.data)
       IN  /\ experiments_library' = ran.library
           /\ plots_library' = plotted.library
           /\ output_data' = IF ran.raised THEN output_data ELSE ran.data
           /\ lastWorkflow' = [ran |-> TRUE,
                               workflow_id |-> workflow_id,
                               experiments_before |-> experiments_library,
                               plots_before |-> plots_library,
                               raised |-> ran.raised \/ plotted.raised,
                               events |-> ran.events \o plotted.events]
    /\ workflows_run' = workflows_run + 1
    /\ UNCHANGED exceptControl

ControlNext == \E workflow_id \in DOMAIN workflows_library : RunWorkflow(workflow_id)

(***************************************************************************)
(* Part 11: generate() of a leaf Process (process.py)                      *)
(*                                                                         *)
(* A leaf Process generates the processes mapping {name: self} and the     *)
(* topology {name: {port: (port,)}}, applies its own schema_override to    *)
(* the processes mapping, and nests both under the path given.  The paths  *)
(* are given as tuples.                                                    *)
(***************************************************************************)

\* Number of generate() calls on one Process.
MaxGenerate == 2

\* The names a leaf Process goes by; "global" is also the name of a port.
LeafNames == {"proc", "global"}

\* The ports of the leaf Process: the keys of its ports_schema().
LeafPorts == {"global", "internal"}

\* The `_schema` parameters given at construction: nothing, or flags of a
\* variable for some of the ports.
LeafOverrides ==
    {Binding(LeafPorts, pick) :
        pick \in [LeafPorts -> {Absent,
                                Map([flag \in {"_emit"} |-> Leaf(0)]),
                                Map([flag \in {"_default", "_emit"} |-> Leaf(1)])}]}

AttachmentPaths == {<<>>, <<"agents">>, <<"agents", "1">>}

\* Process.generate_processes: {name: self}.
generate_processes(name, process) == Map([k \in {name} |-> process])

\* Process.generate_topology without a topology override:
\* {name: {port: (port,) for port in ports}}.
generate_topology(name) ==
    Map([k \in {name} |-> Map([port \in LeafPorts |-> Leaf(<<port>>)])])

NoGenerate == [ran |-> FALSE]

LeafStart ==
    /\ leaf_name \in LeafNames
    /\ leaf_given \in LeafOverrides
    /\ leaf_process = ProcessNode(leaf_given)
    /\ generate_calls = 0
    /\ lastGenerate = NoGenerate

LeafIdle ==
    /\ leaf_name = "none"
    /\ leaf_given = EmptyDict
    /\ leaf_process = ProcessNode(EmptyDict)
    /\ generate_calls = 0
    /\ lastGenerate = NoGenerate

\* Process.generate(None, path).  _override_schemas acts on self through the
\* processes mapping; when it raises, generate raises, and the overrides of
\* the keys visited before the raise have been merged into self.
Generate(at) ==
    /\ generate_calls < MaxGenerate
    /\ LET procs == generate_processes(leaf_name, leaf_process)
           topology == generate_topology(leaf_name)
           out == _override_schemas(leaf_process.schema_override, procs)
       IN  IF out # Raised
           THEN /\ leaf_process' = out.items[leaf_name]
                /\ lastGenerate' = [ran |-> TRUE, raised |-> FALSE, path |-> at,
                                    processes |-> assoc_in(EmptyDict, at, out),
                                    topology |-> assoc_in(EmptyDict, at, topology)]
           ELSE /\ \E ks \in SUBSET AppliedCleanly(leaf_process.schema_override, procs) :
                       leaf_process' =
                           _override_schemas(Restricted(leaf_process.schema_override, ks),
                                             procs).items[leaf_name]
                /\ lastGenerate' = [ran |-> TRUE, raised |-> TRUE, path |-> at,
                                    processes |-> Absent, topology |-> Absent]
    /\ generate_calls' = generate_calls + 1
    /\ UNCHANGED <<leaf_name, leaf_given>>
    /\ UNCHANGED exceptLeaf

LeafNext == \E at \in AttachmentPaths : Generate(at)

(***************************************************************************)
(* Specifications                                                          *)
(***************************************************************************)

AssocInit == AssocStart /\ ParIdle /\ StoreIdle /\ SchedIdle /\ MergeIdle /\ ConstructIdle /\ OverrideIdle /\ CliIdle /\ EngineIdle /\ ControlIdle /\ LeafIdle

AssocNext == AssocCall

SpecAssoc == AssocInit /\ [][AssocNext]_vars

ParInit == ParStart /\ AssocIdle /\ StoreIdle /\ SchedIdle /\ MergeIdle /\ ConstructIdle /\ OverrideIdle /\ CliIdle /\ EngineIdle /\ ControlIdle /\ LeafIdle

SpecParallel == ParInit /\ [][ParNext]_vars

StoreInit == StoreStart /\ AssocIdle /\ ParIdle /\ SchedIdle /\ MergeIdle /\ ConstructIdle /\ OverrideIdle /\ CliIdle /\ EngineIdle /\ ControlIdle /\ LeafIdle

SchedInit == SchedStart /\ AssocIdle /\ ParIdle /\ StoreIdle /\ MergeIdle /\ ConstructIdle /\ OverrideIdle /\ CliIdle /\ EngineIdle /\ ControlIdle /\ LeafIdle

SpecScheduler == SchedInit /\ [][SchedNext]_vars

SpecStore == StoreInit /\ [][StoreNext]_vars

MergeInit == MergeStart /\ AssocIdle /\ ParIdle /\ StoreIdle /\ SchedIdle /\ ConstructIdle /\ OverrideIdle /\ CliIdle /\ EngineIdle /\ ControlIdle /\ LeafIdle

SpecMerge == MergeInit /\ [][MergeNext]_vars

ConstructInit ==
    ConstructStart /\ AssocIdle /\ ParIdle /\ StoreIdle /\ SchedIdle /\ MergeIdle
        /\ OverrideIdle /\ CliIdle /\ EngineIdle /\ ControlIdle /\ LeafIdle

SpecConstruct == ConstructInit /\ [][ConstructNext]_vars

OverrideInit ==
    OverrideStart /\ AssocIdle /\ ParIdle /\ StoreIdle /\ SchedIdle /\ MergeIdle
        /\ ConstructIdle /\ CliIdle /\ EngineIdle /\ ControlIdle /\ LeafIdle

SpecOverride == OverrideInit /\ [][OverrideNext]_vars

CliInit ==
    CliStart /\ AssocIdle /\ ParIdle /\ StoreIdle /\ SchedIdle /\ MergeIdle
        /\ ConstructIdle /\ OverrideIdle /\ EngineIdle /\ ControlIdle /\ LeafIdle

SpecCli == CliInit /\ [][CliNext]_vars

EngineInit ==
    EngineStart /\ AssocIdle /\ ParIdle /\ StoreIdle /\ SchedIdle /\ MergeIdle
        /\ ConstructIdle /\ OverrideIdle /\ CliIdle /\ ControlIdle /\ LeafIdle

SpecEngine == EngineInit /\ [][EngineNext]_vars

ControlInit ==
    ControlStart /\ AssocIdle /\ ParIdle /\ StoreIdle /\ SchedIdle /\ MergeIdle
        /\ ConstructIdle /\ OverrideIdle /\ CliIdle /\ EngineIdle /\ LeafIdle

SpecControl == ControlInit /\ [][ControlNext]_vars

LeafInit ==
    LeafStart /\ AssocIdle /\ ParIdle /\ StoreIdle /\ SchedIdle /\ MergeIdle
        /\ ConstructIdle /\ OverrideIdle /\ CliIdle /\ EngineIdle /\ ControlIdle

SpecLeaf == LeafInit /\ [][LeafNext]_vars

\* The operating system schedules the worker process whenever it can take a
\* step, and join() returns once the worker has ended.
FairSpecParallel ==
    /\ ParInit
    /\ [][ParNext]_vars
    /\ WF_vars(WorkerRecv)
    /\ WF_vars(WorkerCompute)
    /\ WF_vars(WorkerSend)
    /\ WF_vars(WorkerClose)
    /\ WF_vars(JoinReturn)


(***************************************************************************)
(* Claims about assoc_in                                                   *)
(***************************************************************************)

\* The locations a tree of the model can hold: one level below the longest
\* path, where an inserted mapping keeps its own items.
Locations == PathsUpTo(MaxPathLen + 1)

\* The proper prefixes of path that name no location of d.
MissingAlong == {n \in 1 .. (Len(path) - 1) : get_in(d, SubSeq(path, 1, n)) = Absent}

RealRequests == SelectSeq([n \in 1 .. Len(sent) |-> n],
                          LAMBDA n : ~IsStop(sent[n].interval))

\* No update() call carried the interval -1.
NoStopByUpdate ==
    \A n \in 1 .. Len(sent) : sent[n].via = "update" => ~IsStop(sent[n].interval)

\* C2: requests with intervals other than -1, sent through update() and
\* collected with get() one at a time, yield the sequence of updates that
\* next_update yields when called directly, in the same order, on a
\* non-isolated instance started in the same state.
C2_ParallelMatchesDirect ==
    (sequential /\ NoStopByUpdate) =>
        /\ Len(collected) <= Len(direct.out)
        /\ \A k \in 1 .. Len(collected) : collected[k].update = direct.out[k]

\* Two requests were served one at a time from a process whose private state
\* the first call advanced.
C2_Witness ==
    /\ sequential
    /\ NoStopByUpdate
    /\ Len(sent) = 2
    /\ Len(collected) = 2
    /\ collected[2].update = direct.out[2]
    /\ collected[2].update.call = procPriv + 1

\* The replies the worker has put on the channel so far: those collected and
\* those still buffered.
RepliesSent == collected \o repQ

\* C3: the k-th value get() returns is the update the worker computed for
\* the k-th request that is not the sentinel; every reply the worker sends
\* answers a request that was sent, and no request is answered twice.
C3_RepliesInRequestOrder ==
    /\ Len(collected) <= Len(RealRequests)
    /\ \A k \in 1 .. Len(collected) :
           /\ collected[k].tag = RealRequests[k]
           /\ collected[k] = wlog[k]
    /\ Len(RepliesSent) <= Len(wlog)
    /\ Len(RepliesSent) >= Len(wlog) - 1
    /\ wpc \in {"recv", "close", "exited"} => Len(RepliesSent) = Len(wlog)
    /\ RepliesSent = SubSeq(wlog, 1, Len(RepliesSent))
    /\ \A k \in 1 .. Len(wlog) :
           /\ wlog[k].tag \in 1 .. Len(sent)
           /\ ~IsStop(sent[wlog[k].tag].interval)
           /\ \A j \in 1 .. Len(wlog) : wlog[j].tag = wlog[k].tag => j = k

\* Two replies were collected after the requests had been sent back to back.
C3_Witness ==
    /\ ~sequential
    /\ Len(collected) = 2
    /\ collected[1].tag = 1
    /\ collected[2].tag = 2

\* The clean end() has run its course: the worker took the sentinel, closed
\* its end and exited, and end() has returned from join().
CleanlyEnded == wpc = "exited" /\ IsStop(wmsg.interval) /\ ended /\ rpc # "join"

\* C4: once end() is called with every earlier request answered and
\* collected, the worker (unless it is killed) receives the sentinel, calls
\* next_update no more, closes its end and exits, and end() returns.
C4_EndTerminatesWorker ==
    /\ [](wpc # "dead") => [](cleanEnd => <>CleanlyEnded)
    /\ [][cleanEnd => wlog' = wlog]_vars

\* end() has returned after two requests were answered and collected.
C4_Witness ==
    /\ cleanEnd
    /\ CleanlyEnded
    /\ Len(collected) = 2
    /\ Len(wlog) = 2

\* The worker is gone: it died, or it closed its end of the channel.
WorkerGone == ~workerHolds

\* C5: if the worker has died or closed its end while the requester waits in
\* get() and no reply is buffered, get() ends with an error.
C5_GetRaisesWhenWorkerGone ==
    (rpc = "get" /\ WorkerGone /\ repQ = <<>>) => parent_recv = "eof"


(***************************************************************************)
(* Claims about the structural updates                                     *)
(***************************************************************************)

DaughterKeys(dv) == {dv.daughters[i].key : i \in 1 .. Len(dv.daughters)}

\* C6: a _divide update with mother m removes key m from the store that
\* holds it and inserts exactly one new key per listed daughter in the same
\* tick: the tree the tick read holds m and no daughter, the snapshot it
\* emits holds every daughter and not m, and no emitted snapshot holds an
\* agent together with both of its daughters.
C6_DivideReplacesMother ==
    lastTick.ran =>
        /\ \A dv \in lastTick.divides :
               LET read == KeysAt(lastTick.before, dv.node)
                   justBefore == KeysAt(lastTick.afterMoves, dv.node)
                   after == KeysAt(lastTick.emitted, dv.node)
                   here == {x \in lastTick.divides : x.node = dv.node}
               IN  /\ dv.mother \in read
                   /\ DaughterKeys(dv) \cap read = {}
                   /\ dv.mother \notin after
                   /\ DaughterKeys(dv) \subseteq after
                   /\ Cardinality(DaughterKeys(dv)) = Len(dv.daughters)
                   /\ after = (justBefore \ {x.mother : x \in here})
                                  \cup UNION {DaughterKeys(x) : x \in here}
        /\ \A p \in DOMAIN lastTick.emitted :
               ~(\A i \in 1 .. 2 :
                     Append(Parent(p), Append(Key(p), i - 1))
                         \in DOMAIN lastTick.emitted)

\* A daughter of an earlier division has divided in turn.
C6_Witness ==
    /\ lastTick.ran
    /\ \E dv \in lastTick.divides :
           /\ Len(dv.mother) = 2
           /\ dv.mother \notin KeysAt(lastTick.emitted, dv.node)
           /\ DaughterKeys(dv) \subseteq KeysAt(lastTick.emitted, dv.node)

MovedKeys(node) ==
    {lastTick.moves[i].source :
        i \in {j \in 1 .. Len(lastTick.moves) : lastTick.moves[j].node = node}}

MovesIntoDividing ==
    {pr \in {<<lastTick.moves[i], dv>> :
                 i \in 1 .. Len(lastTick.moves), dv \in lastTick.divides} :
        pr[1].target = Append(pr[2].node, pr[2].mother)}

\* C10: when one tick applies both moves and divides, the moves come first:
\* the divide works on the tree in which the moved subtree already lies
\* under the mother, so the snapshot holds neither the mother nor, beside
\* the daughters, the moved key; and the tree the steps read is always the
\* outcome of a whole application.
C10_MovesBeforeDivides ==
    lastTick.ran =>
        /\ tree = lastTick.emitted
        /\ lastTick.emitted = ApplyDivides(lastTick.afterMoves, lastTick.divides)
        /\ \A pr \in MovesIntoDividing :
               LET mv == pr[1]
                   dv == pr[2]
               IN  /\ Subtree(lastTick.afterMoves, Append(mv.target, mv.source))
                          = Subtree(lastTick.before, Append(mv.node, mv.source))
                   /\ dv.mother \notin KeysAt(lastTick.emitted, dv.node)
                   /\ mv.source \notin KeysAt(lastTick.emitted, mv.node)
                   /\ DaughterKeys(dv) \subseteq KeysAt(lastTick.emitted, dv.node)

\* A tick moved a neighbor into an agent that divided in the same tick.
C10_Witness ==
    /\ lastTick.ran
    /\ MovesIntoDividing # {}
    /\ \E pr \in MovesIntoDividing :
           /\ Append(pr[1].target, pr[1].source) \in DOMAIN lastTick.afterMoves
           /\ pr[2].mother \notin KeysAt(tree, pr[2].node)


(***************************************************************************)
(* Claims about the scheduler                                              *)
(***************************************************************************)

FavoredTimesteps == <<units["p1"].parameters.time_step, units["p2"].parameters.time_step>>

\* C8: at each tick the clock advances to the smallest next-due time among
\* the processes and only the processes due then run; with timesteps 2 and 3
\* over 12 time units the clock visits 2, 3, 4, 6, 8, 9, 10, 12 in that
\* order, the first process runs 6 times and the second 4 times.
C8_ClockVisitsDueTimes ==
    /\ lastRound.kind = "processes" =>
           /\ clock = MinOf({lastRound.dueBefore[n] : n \in DOMAIN lastRound.dueBefore})
           /\ lastRound.ran = {n \in DOMAIN lastRound.dueBefore :
                                   lastRound.dueBefore[n] = clock}
           /\ visited[Len(visited)] = clock
    /\ (spc = "done" /\ FavoredTimesteps = <<2, 3>> /\ RunTime = 12) =>
           /\ visited = <<2, 3, 4, 6, 8, 9, 10, 12>>
           /\ runs["p1"] = 6
           /\ runs["p2"] = 4

\* The run of 12 time units with timesteps 2 and 3 is over.
C8_Witness ==
    /\ spc = "done"
    /\ FavoredTimesteps = <<2, 3>>
    /\ Len(visited) = 8
    /\ clock = 12

\* C9: in every tick the steps, and only the units that are derivers, are
\* re-run with zero elapsed time until no step produces a further change,
\* and only then the time-stepped processes run; when the iteration bound is
\* used up without a fixed point the run is aborted and no time-stepped
\* process is started.
C9_StepsSettleBeforeProcesses ==
    /\ lastRound.kind = "steps" =>
           /\ lastRound.ran = {n \in UnitNames : units[n].class = "Deriver"}
           /\ \A n \in lastRound.ran : lastRound.elapsed[n] = 0
    /\ lastRound.kind = "processes" =>
           /\ lastRound.settled
           /\ \A n \in lastRound.ran :
                  units[n].class = "Process" /\ lastRound.elapsed[n] > 0
    /\ spc = "processes" => Settled(store)
    /\ (spc = "steps" /\ iter > 0) => lastRound.kind = "steps" /\ ~lastRound.settled
    /\ spc = "aborted" =>
           /\ iter = MaxStepIterations
           /\ lastRound.kind = "steps"
           /\ ~ENABLED ProcessRound
           /\ ~ENABLED StepIteration

\* A derivation cycle used up the iteration bound and the run was aborted
\* before any time-stepped process ran.
C9_Witness ==
    /\ spc = "aborted"
    /\ runs["step"] = MaxStepIterations
    /\ runs["p1"] = 0
    /\ runs["p2"] = 0


(***************************************************************************)
(* Claims about the sentinel and abandoned requests                        *)
(***************************************************************************)

\* The positions in the requester's history of the messages whose interval
\* is -1, whichever call sent them.
StopPositions == {n \in 1 .. Len(sent) : sent[n].interval = -1}

\* The position of the first message with interval -1, or one past the
\* history when there is none.
FirstStop == IF StopPositions = {} THEN Len(sent) + 1 ELSE MinOf(StopPositions)

\* C17: for every message the worker receives, an interval other than -1
\* makes it call next_update once and send one reply, and the interval -1,
\* whatever the states, makes it call nothing, send nothing and receive no
\* more; so update(-1, states) ends the worker and no get() returns an
\* update for that request.
C17_SentinelStopsWorker ==
    /\ wmsg.tag <= FirstStop
    /\ \A k \in 1 .. Len(wlog) : wlog[k].tag = k /\ k < FirstStop
    /\ wpc \in {"recv", "send"} => Len(wlog) = wmsg.tag
    /\ wpc = "compute" => Len(wlog) = wmsg.tag - 1
    /\ wpc = "send" => Len(RepliesSent) = Len(wlog) - 1
    /\ wpc \in {"recv", "close", "exited"} => Len(RepliesSent) = Len(wlog)
    /\ wpc \in {"close", "exited"} =>
           /\ wmsg.interval = -1
           /\ wmsg.tag = FirstStop
           /\ Len(wlog) = FirstStop - 1
    /\ \A k \in 1 .. Len(collected) : collected[k].tag \notin StopPositions

\* update(-1, states) with real states ended the worker, and the requester
\* waits in the get() that follows it.
C17_Witness ==
    /\ \E n \in StopPositions :
           /\ sent[n].via = "update"
           /\ sent[n].states \in PortStates
           /\ wmsg.tag = n
    /\ wpc = "exited"
    /\ rpc = "get"
    /\ Len(sent) > FirstStop

\* The replies the worker owes and the requester has not collected.
Uncollected == (FirstStop - 1) - Len(collected)

\* The worker waits in send for room in a full buffer while the requester
\* waits in join().
BlockedInSend == rpc = "join" /\ wpc = "send" /\ send_blocks(repQ)

\* C18: when end() is called with replies uncollected, the worker finishes
\* next_update and sends every reply before it reads the sentinel; if the
\* channel can hold the uncollected replies the worker reaches the sentinel
\* and end() returns, and otherwise the worker stays in send and end() does
\* not return while the worker lives.
C18_AbandonedReplyMustFit ==
    /\ [](wpc \in {"close", "exited"} =>
              /\ Len(RepliesSent) = FirstStop - 1
              /\ Len(repQ) = Uncollected
              /\ Uncollected <= PipeCap)
    /\ []((rpc = "join" /\ Uncollected > PipeCap) => wpc \notin {"close", "exited"})
    /\ [][(rpc = "join" /\ rpc' # "join") => wpc \in {"exited", "dead"}]_vars
    /\ [][(BlockedInSend /\ wpc' # "dead") => BlockedInSend']_vars
    /\ ([](wpc # "dead") =>
            []((rpc = "join" /\ Uncollected <= PipeCap) =>
                   <>(rpc = "idle" /\ ended /\ wpc = "exited")))

\* end() was called with more replies uncollected than the channel holds,
\* and the worker waits in send.
C18_Witness ==
    /\ BlockedInSend
    /\ Uncollected > PipeCap
    /\ collected = <<>>


(***************************************************************************)
(* Claims about the Engulf and MetaDivision steps                          *)
(***************************************************************************)

\* The update Engulf is to return for a trigger list.
ExpectedEngulfUpdate(trig) ==
    IF trig = <<>> THEN <<>>
    ELSE [trigger |-> [_updater |-> "set", _value |-> <<>>],
          outer |-> [_move |-> [i \in 1 .. Len(trig) |->
                                   [source |-> trig[i], target |-> "inner"]]]]

\* C19: with a non-empty trigger list Engulf returns an update that sets the
\* trigger to the empty list through an explicit _updater set / _value pair
\* and holds one _move entry per listed neighbor from its key in outer to
\* inner, and with an empty trigger it returns the empty update; once the
\* update is applied, running the step again yields no update, and each
\* listed neighbor has been moved once.
C19_EngulfSettlesInOneRun ==
    /\ \A p \in DOMAIN tree :
           EngulfUpdate(tree, p) = ExpectedEngulfUpdate(tree[p].trigger)
    /\ lastTick.ran =>
           /\ \A p \in DOMAIN tree : EngulfUpdate(tree, p) = <<>>
           /\ MovesOf(tree, Engulfers(tree)) = <<>>
           /\ \A p \in Engulfers(lastTick.before) :
                  LET trig == lastTick.before[p].trigger
                      mine == SelectSeq(lastTick.moves,
                                        LAMBDA mv : mv.target = EngulfTopology(p).inner)
                  IN  /\ Len(mine) = Len(trig)
                      /\ \A i \in 1 .. Len(trig) :
                             /\ mine[i].source = trig[i]
                             /\ mine[i].node = EngulfTopology(p).outer
                             /\ \A j \in 1 .. Len(trig) : trig[j] = trig[i] => j = i

\* An agent engulfed two neighbors in one tick, and the step has nothing
\* more to do.
C19_Witness ==
    /\ lastTick.ran
    /\ Len(lastTick.moves) = 2
    /\ \E p \in Engulfers(lastTick.before) :
           /\ p \in DOMAIN tree
           /\ tree[p].trigger = <<>>
           /\ KeysAt(tree, p) = {lastTick.moves[1].source, lastTick.moves[2].source}
    /\ Engulfers(tree) = {}

\* The paths of the daughters a _divide entry inserts.
DaughterPaths(dv) == {Append(dv.node, k) : k \in DaughterKeys(dv)}

\* C20: MetaDivision returns a _divide update exactly when its global.divide
\* flag is true, naming its own agent_id as mother and exactly two
\* daughters; after the division each daughter's flag is False, so no agent
\* is left to divide after a tick, every division answers one write of the
\* flag, and a daughter divides only when its own flag was set.
C20_OneDivisionPerTrigger ==
    /\ \A p \in DOMAIN tree :
           LET u == DivisionUpdate(tree, p)
           IN  /\ (u # <<>>) <=> tree[p].divide
               /\ u # <<>> =>
                      /\ DOMAIN u = {"agents"}
                      /\ DOMAIN u.agents = {"_divide"}
                      /\ u.agents._divide.mother = Key(p)
                      /\ Len(u.agents._divide.daughters) = 2
                      /\ u.agents._divide.daughters[1].key
                             # u.agents._divide.daughters[2].key
    /\ lastTick.ran =>
           /\ \A dv \in lastTick.divides :
                  /\ lastTick.before[Append(dv.node, dv.mother)].divide
                  /\ \A q \in DaughterPaths(dv) :
                         q \in DOMAIN tree /\ ~tree[q].divide
           /\ \A p \in DOMAIN tree : ~tree[p].divide
           /\ DividesOf(tree) = {}
    /\ Cardinality(DOMAIN tree) <= Cardinality(InitialAgentIds) + writes

\* A daughter whose flag was set after its birth has divided in turn, and
\* its daughters are not told to divide.
C20_Witness ==
    /\ lastTick.ran
    /\ writes >= 2
    /\ \E dv \in lastTick.divides :
           /\ Len(dv.mother) = 2
           /\ lastTick.before[Append(dv.node, dv.mother)].divide
           /\ \A q \in DaughterPaths(dv) : q \in DOMAIN tree /\ ~tree[q].divide
    /\ Cardinality(DOMAIN tree) = Cardinality(InitialAgentIds) + 2


(***************************************************************************)
(* Claims about update resolution                                          *)
(***************************************************************************)

\* The strategies of the writes of the last tick.
StrategiesWritten == {lastApply.writes[i].strategy : i \in 1 .. Len(lastApply.writes)}

\* C11: when two processes write the leaf in one tick with different update
\* strategies, the tick aborts with a merge-conflict error and the leaf
\* keeps its value; in no order of application is one of the two writes
\* applied.
C11_ConflictAbortsTick ==
    /\ (lastApply.ran /\ Cardinality(StrategiesWritten) > 1) =>
           /\ lastApply.error = "MergeConflictError"
           /\ mpc = "aborted"
           /\ leaf = lastApply.before
    /\ mpc = "aborted" =>
           /\ lastApply.ran
           /\ Cardinality(StrategiesWritten) > 1
           /\ leaf = lastApply.before
           /\ ~ENABLED MergeNext

\* A set and an accumulate met on a leaf that earlier ticks had changed, and
\* either write alone would have changed it again.
C11_Witness ==
    /\ mpc = "aborted"
    /\ lastApply.error = "MergeConflictError"
    /\ Len(lastApply.writes) = 2
    /\ leaf = lastApply.before
    /\ leaf > 0
    /\ \A i \in 1 .. 2 : ApplyWrites(leaf, <<lastApply.writes[i]>>) # leaf

RECURSIVE SumOf(_)
SumOf(ws) == IF ws = <<>> THEN 0 ELSE Head(ws).value + SumOf(Tail(ws))

Reversed(ws) == [i \in 1 .. Len(ws) |-> ws[Len(ws) + 1 - i]]

\* C12: for a leaf updated by accumulate, the writes u1 and u2 applied in
\* either order leave the starting value plus u1 plus u2.
C12_AccumulateCommutes ==
    (lastApply.ran /\ StrategiesWritten = {"accumulate"}) =>
        /\ lastApply.error = "none"
        /\ leaf = lastApply.before + SumOf(lastApply.writes)
        /\ leaf = ApplyWrites(lastApply.before, Reversed(lastApply.writes))

\* Two different amounts were added, the second writer first, to a leaf that
\* held a value.
C12_Witness ==
    /\ lastApply.ran
    /\ StrategiesWritten = {"accumulate"}
    /\ Len(lastApply.writes) = 2
    /\ lastApply.writes[1].writer = "w2"
    /\ lastApply.writes[1].value # lastApply.writes[2].value
    /\ lastApply.before > 0
    /\ leaf = lastApply.before + 3


(***************************************************************************)
(* Claims about Process.__init__                                           *)
(***************************************************************************)

ParameterKeys == {"a", "b", "c", "time_step", "_schema", "_parallel"}

\* The paths of up to three parameter keys.
ParameterPaths ==
    UNION {[1 .. n -> ParameterKeys] : n \in 0 .. 3}

\* The mapping the constructor merges into the defaults.
GivenMapping == OrEmpty(init_parameters)

BothMappings(x, y) == IsMapping(x) /\ IsMapping(y)

\* Above the path, the argument holds a value that is not merged with a
\* mapping of the defaults, and so stands in place of whatever they hold.
Shadowed(q) ==
    \E n \in 1 .. (Len(q) - 1) :
        LET pv == get_in(GivenMapping, SubSeq(q, 1, n))
            dv == get_in(defaults, SubSeq(q, 1, n))
        IN  pv # Absent /\ ~BothMappings(pv, dv)

\* rv is what the defaults deep-merged with the argument hold at q: the
\* argument's value where it has one, a mapping over the keys of both where
\* both hold mappings, and the defaults' value where the argument is silent.
MergedAt(rv, q) ==
    LET pv == get_in(GivenMapping, q)
        dv == get_in(defaults, q)
    IN  IF pv # Absent /\ ~BothMappings(pv, dv) THEN rv = pv
        ELSE IF pv = Absent THEN rv = (IF Shadowed(q) THEN Absent ELSE dv)
        ELSE IsMapping(rv)
             /\ DOMAIN rv.items = (DOMAIN pv.items) \cup (DOMAIN dv.items)

GivenNowhere(q) == get_in(GivenMapping, q) = Absent /\ get_in(defaults, q) = Absent

\* C13: after construction with the argument P, parameters equal the class
\* defaults deep-merged with P, P winning on every conflicting key at every
\* depth, without the keys _schema and _parallel, whose values are held as
\* schema_override and parallel (an empty mapping and False when absent),
\* and with time_step present, equal to the default 1.0 when neither the
\* defaults nor P give one.
C13_InitMergesParameters ==
    cpc = "constructed" =>
        /\ IsMapping(self.parameters)
        /\ \A q \in ParameterPaths \ {<<>>} :
               LET rv == get_in(self.parameters, q)
               IN  IF q[1] \in {"_schema", "_parallel"} THEN rv = Absent
                   ELSE IF q = <<"time_step">> /\ GivenNowhere(q)
                        THEN rv = Leaf(DEFAULT_TIME_STEP)
                        ELSE MergedAt(rv, q)
        /\ IF GivenNowhere(<<"_schema">>) THEN self.schema_override = EmptyDict
           ELSE \A q \in {x \in ParameterPaths : Len(x) <= 2} :
                    MergedAt(get_in(self.schema_override, q), <<"_schema">> \o q)
        /\ IF GivenNowhere(<<"_parallel">>) THEN self.parallel = Bool(FALSE)
           ELSE MergedAt(self.parallel, <<"_parallel">>)

\* The argument overrode one nested key and left another to the defaults,
\* both gave a schema override, the flag came from the defaults, and no
\* time_step was given.
C13_Witness ==
    /\ cpc = "constructed"
    /\ get_in(defaults, <<"a", "b">>) = Leaf(0)
    /\ get_in(defaults, <<"a", "c">>) = Leaf(0)
    /\ get_in(GivenMapping, <<"a", "b">>) = Leaf(1)
    /\ get_in(GivenMapping, <<"a", "c">>) = Absent
    /\ get_in(self.parameters, <<"a", "b">>) = Leaf(1)
    /\ get_in(self.parameters, <<"a", "c">>) = Leaf(0)
    /\ get_in(self.parameters, <<"time_step">>) = Leaf(DEFAULT_TIME_STEP)
    /\ GivenNowhere(<<"time_step">>)
    /\ self.schema_override = Map([k \in {"a", "b"} |-> IF k = "a" THEN Leaf(0) ELSE Leaf(1)])
    /\ self.parallel = Bool(TRUE)
    /\ get_in(GivenMapping, <<"_parallel">>) = Absent


(***************************************************************************)
(* Claims about schema overrides                                           *)
(***************************************************************************)

SchemaFlags == {"_default", "_emit", "_divider"}

\* The applications whose overrides mapping, followed along the keys that
\* lead to the process at pp, holds something at the path q of its schema.
Naming(pp, q) ==
    {i \in 1 .. Len(applied) : get_in(applied[i], pp \o q) # Absent}

MaxOf(S) == CHOOSE x \in S : \A y \in S : y <= x

\* C14: when every override names keys the processes mapping holds, each
\* override is pushed down along its keys to the Process it names and merged
\* into its schema_override, a later override winning over an earlier one on
\* the same key; a process no override names keeps its schema_override, the
\* mapping keeps its keys and its other values, and get_schema() returns
\* ports_schema deep-merged with the schema_override.
C14_OverridesReachLeafProcess ==
    /\ opc = "ready" =>
           /\ IsMapping(processes)
           /\ DOMAIN processes.items = DOMAIN generated.items
           /\ get_in(processes, <<"x">>) = get_in(generated, <<"x">>)
           /\ DOMAIN get_in(processes, <<"sub">>).items
                  = DOMAIN get_in(generated, <<"sub">>).items
           /\ \A pp \in ProcessPaths :
                  LET now == get_in(processes, pp)
                      was == get_in(generated, pp)
                  IN  /\ IsProcess(now)
                      /\ Naming(pp, <<>>) = {} => now = was
                      /\ \A f \in SchemaFlags :
                             get_in(now.schema_override, <<"global", f>>)
                                 = IF Naming(pp, <<"global", f>>) = {}
                                   THEN get_in(was.schema_override, <<"global", f>>)
                                   ELSE get_in(applied[MaxOf(Naming(pp, <<"global", f>>))],
                                               pp \o <<"global", f>>)
    /\ schema # NoSchema =>
           LET so == get_in(processes, schema.of).schema_override
           IN  /\ IsMapping(schema.schema)
               /\ DOMAIN schema.schema.items = {"global"}
               /\ \A f \in SchemaFlags :
                      get_in(schema.schema, <<"global", f>>)
                          = IF get_in(so, <<"global", f>>) # Absent
                            THEN get_in(so, <<"global", f>>)
                            ELSE get_in(ports_schema, <<"global", f>>)

\* Two overrides reached the nested process r: the later one won on
\* _default, the earlier one's _emit stayed, the unnamed process p kept the
\* override it was constructed with, and get_schema() was read on r.
C14_Witness ==
    /\ opc = "ready"
    /\ Len(applied) = 2
    /\ Naming(<<"sub", "r">>, <<"global", "_default">>) = {1, 2}
    /\ Naming(<<"sub", "r">>, <<"global", "_emit">>) = {1}
    /\ Naming(<<"p">>, <<>>) = {}
    /\ get_in(processes, <<"p">>).schema_override # EmptyDict
    /\ get_in(get_in(processes, <<"sub", "r">>).schema_override,
              <<"global", "_default">>) = Leaf(2)
    /\ get_in(get_in(processes, <<"sub", "r">>).schema_override,
              <<"global", "_emit">>) = Leaf(1)
    /\ schema.of = <<"sub", "r">>
    /\ get_in(schema.schema, <<"global", "_default">>) = Leaf(2)
    /\ get_in(schema.schema, <<"global", "_divider">>) = Leaf(0)


(***************************************************************************)
(* Claims about the command-line options                                   *)
(***************************************************************************)

\* The option strings of the command line, in the order given.
OptionsGiven ==
    IF parser_args.options.kind = "none" THEN <<>> ELSE parser_args.options.items

\* The characters of an option string before its first '=' (all of them when
\* it holds none), and the characters after that '='.
KeyOf(a) ==
    LET n == CHOOSE n \in 0 .. Len(a) :
                 /\ \A i \in 1 .. n : a[i] # "="
                 /\ n = Len(a) \/ a[n + 1] = "="
    IN  SubSeq(a, 1, n)

TextOf(a) == SubSeq(a, Len(KeyOf(a)) + 2, Len(a))

\* The typed value the options are to hold for a text.
TypedAs(text) ==
    IF text = <<"T", "r", "u", "e">> THEN BoolValue(TRUE)
    ELSE IF text = <<"F", "a", "l", "s", "e">> THEN BoolValue(FALSE)
    ELSE IF str_isdigit(text) THEN IntValue(int(text))
    ELSE IF is_float(text) THEN FloatValue(float(text))
    ELSE StrValue(text)

\* The last option string given for a key decides the key's value.
Deciding(i) ==
    \A j \in (i + 1) .. Len(OptionsGiven) : KeyOf(OptionsGiven[j]) # KeyOf(OptionsGiven[i])

\* C15: once the options are parsed, each option string is held under the
\* characters before its first '=' with the characters after it typed: an
\* all-digit text as that integer, a float literal as that float, 'True' as
\* true, 'False' as false, any other text as itself; and every named library
\* entry is called with these options.
C15_OptionsSplitTypedAndPassed ==
    lpc \in {"named", "all", "done", "raised"} =>
        /\ DOMAIN options = {KeyOf(OptionsGiven[i]) : i \in 1 .. Len(OptionsGiven)}
        /\ \A i \in 1 .. Len(OptionsGiven) :
               Deciding(i) =>
                   options[KeyOf(OptionsGiven[i])] = TypedAs(TextOf(OptionsGiven[i]))
        /\ ~run_all =>
               /\ \A j \in 1 .. Len(calls) :
                      /\ calls[j].name = parser_args.name[j]
                      /\ calls[j].kwargs = options
               /\ lpc = "done" => Len(calls) = Len(parser_args.name)


(***************************************************************************)
(* Claims about the workers of an engine                                   *)
(***************************************************************************)

\* The adapters of the units a division has removed from the hierarchy.
RemovedAdapters == DOMAIN workers \ AdaptersOf(hierarchy)

C25_AssocLeavesInputAlone ==
    apc = "returned" =>
        /\ \A a \in DOMAIN before : a \in DOMAIN heap /\ heap[a] = before[a]
        /\ TreeOf(heap, InputRef) = d
        /\ path = <<>> => hresult = ValueRef

\* A call along a nested dict of d that rebinds a key of it: the returned
\* tree differs from d, and the nested dict is among the objects kept.
C25_Witness ==
    /\ apc = "returned"
    /\ Len(path) = 2
    /\ IsMapping(get_in(d, <<Head(path)>>))
    /\ get_in(d, path) # Absent
    /\ hresult # Raised
    /\ TreeOf(heap, hresult) # d
    /\ heap[Addr("d", <<Head(path)>>, 0)] = before[Addr("d", <<Head(path)>>, 0)]


(***************************************************************************)
(* Claims about the requester's copy of the wrapped Process                *)
(***************************************************************************)

\* C24: no step of the requester or of the worker changes the private state
\* of the Process object the requester holds, and the worker's copy is that
\* state advanced once for every request the worker has computed.
C24_RequesterCopyUntouched ==
    /\ [][procPriv' = procPriv]_vars
    /\ [](wpriv = procPriv + Len(wlog))

\* Two requests were served and collected: the worker's copy has advanced
\* twice beyond the requester's.
C24_Witness ==
    /\ Len(collected) = 2
    /\ Len(wlog) = 2
    /\ wpriv = procPriv + 2


(***************************************************************************)
(* Claims about the ids of the agents of a dividing hierarchy              *)
(***************************************************************************)

\* The ids of every agent the run has held, present or removed.
AgentsEver == {w[1] : w \in DOMAIN workers}

\* C21: starting from one agent, every division replaces one agent by two
\* whose ids no agent holds or has held: the agents present hold
\* 1 + divisions distinct ids, the run has handed out 1 + 2 * divisions
\* distinct ids in all, and a step that changes the hierarchy adds only ids
\* that were never held and removes an id that stays out.
C21_DaughterIdsAreFresh ==
    /\ [](epc # "idle" =>
            /\ Cardinality(hierarchy) = 1 + divisions
            /\ Cardinality(AgentsEver) = 1 + 2 * divisions
            /\ hierarchy \subseteq AgentsEver)
    /\ [][(hierarchy' # hierarchy) =>
            /\ (hierarchy' \ hierarchy) \cap AgentsEver = {}
            /\ Cardinality(hierarchy' \ hierarchy) = 2
            /\ Cardinality(hierarchy \ hierarchy') = 1]_vars

\* Two divisions have happened, the second of a daughter of the first: three
\* agents are present, two have been removed.
C21_Witness ==
    /\ divisions = 2
    /\ Cardinality(hierarchy) = 3
    /\ Cardinality(AgentsEver \ hierarchy) = 2
    /\ \E a \in hierarchy : Len(a) = 3


(***************************************************************************)
(* Claims about the workflows of a Control object                          *)
(***************************************************************************)

\* The calls a run of the workflow is to make: the experiment of the library
\* entry, then each listed plot in order on the experiment's result.
WorkflowCalls(workflow, experiments, plots_, data) ==
    <<Call("experiment", experiments[workflow.experiment].fn, {}, data)>>
    \o [i \in 1 .. Len(workflow.plots) |->
           Call("plot", plots_[workflow.plots[i]].fn,
                plots_[workflow.plots[i]].keys \ {"plot"}, data)]

\* C22: a run_workflow call, the first on a Control object or a later one,
\* leaves the experiments library and the plots library as they were, raises
\* nothing, runs the experiment and then every listed plot, and sets
\* output_data to the result of that experiment.
C22_WorkflowLeavesLibraries ==
    lastWorkflow.ran =>
        /\ experiments_library = lastWorkflow.experiments_before
        /\ plots_library = lastWorkflow.plots_before
        /\ ~lastWorkflow.raised
        /\ output_data.kind = "data"
        /\ output_data.run = workflows_run
        /\ lastWorkflow.events =
               WorkflowCalls(workflows_library[lastWorkflow.workflow_id],
                             lastWorkflow.experiments_before,
                             lastWorkflow.plots_before, output_data)


(***************************************************************************)
(* Claims about generate() of a leaf Process                               *)
(***************************************************************************)

\* C23: for a leaf Process constructed with a non-empty _schema keyed by its
\* port names, every generate() call, the first or a later one, raises
\* nothing, returns the processes mapping {name: self} and the topology both
\* nested under the path given, and leaves the schema_override of the
\* Process as it was given at construction.
C23_LeafGenerateKeepsOverride ==
    (lastGenerate.ran /\ leaf_given # EmptyDict
        /\ DOMAIN leaf_given.items \subseteq LeafPorts) =>
        /\ ~lastGenerate.raised
        /\ get_in(lastGenerate.processes, lastGenerate.path)
               = generate_processes(leaf_name, leaf_process)
        /\ get_in(lastGenerate.topology, lastGenerate.path)
               = generate_topology(leaf_name)
        /\ leaf_process.schema_override = leaf_given

====
